---- MODULE Spec2Model ----
(***************************************************************************)
(* Model of reliverse/bleump, a version-bumping utility.                   *)
(*                                                                         *)
(* Three bump engines live in the repository and are modelled side by      *)
(* side:                                                                   *)
(*   "mod"  - src/unnamed/part_000 lines 1-666   (bumpVersion and friends) *)
(*   "impl" - src/unnamed/part_000 lines 668-1054 (used by src/src/cli.ts) *)
(*   "old"  - src/deprecated/old-mod.ts                                    *)
(*                                                                         *)
(* File contents are sequences of lexical tokens, so that the regular      *)
(* expressions of the code are matched and replaced structurally.          *)
(***************************************************************************)
EXTENDS Integers, Sequences, FiniteSets, TLC

(***************************************************************************)
(* Bounds of the model.                                                    *)
(***************************************************************************)
MaxCalls == 1

(***************************************************************************)
(* Version strings.  k = "sem": a string semver accepts, MAJOR.MINOR.PATCH *)
(* with pre = 1 when it carries a prerelease tag; k = "bad": a non-empty   *)
(* string semver rejects; k = "none": undefined / the empty string.        *)
(***************************************************************************)
V(a, b, c) == [k |-> "sem", maj |-> a, min |-> b, pat |-> c, pre |-> 0]

Pre(a, b, c) == [k |-> "sem", maj |-> a, min |-> b, pat |-> c, pre |-> 1]

BadVer == [k |-> "bad", maj |-> 0, min |-> 0, pat |-> 0, pre |-> 0]

NoVer == [k |-> "none", maj |-> 0, min |-> 0, pat |-> 0, pre |-> 0]

\* semver.valid(v) !== null
semverValid(v) == v.k = "sem"

\* semver.inc(v, release): null (NoVer) when v does not parse
\* faulty variant of semverInc: the lower-order components are not reset
semverIncNoReset(v, release) ==
  IF ~semverValid(v) THEN NoVer
  ELSE CASE release = "major" ->
              V(IF v.min # 0 \/ v.pat # 0 \/ v.pre = 0 THEN v.maj + 1 ELSE v.maj,
                v.min, v.pat)
         [] release = "minor" ->
              V(v.maj, IF v.pat # 0 \/ v.pre = 0 THEN v.min + 1 ELSE v.min, v.pat)
         [] OTHER ->
              V(v.maj, v.min, IF v.pre = 0 THEN v.pat + 1 ELSE v.pat)

semverInc(v, release) ==
  IF ~semverValid(v) THEN NoVer
  ELSE CASE release = "major" ->
              V(IF v.min # 0 \/ v.pat # 0 \/ v.pre = 0 THEN v.maj + 1 ELSE v.maj, 0, 0)
         [] release = "minor" ->
              V(v.maj, IF v.pat # 0 \/ v.pre = 0 THEN v.min + 1 ELSE v.min, 0)
         [] OTHER ->
              V(v.maj, v.min, IF v.pre = 0 THEN v.pat + 1 ELSE v.pat)

\* semver.compare(a, b) for parsable a and b
semverCompare(a, b) ==
  CASE a.maj # b.maj -> IF a.maj < b.maj THEN -1 ELSE 1
    [] a.min # b.min -> IF a.min < b.min THEN -1 ELSE 1
    [] a.pat # b.pat -> IF a.pat < b.pat THEN -1 ELSE 1
    [] a.pre # b.pre -> IF a.pre > b.pre THEN -1 ELSE 1
    [] OTHER -> 0

\* isValidSemver
isValidSemver(v) == semverValid(v)

(***************************************************************************)
(* Tokens of file contents.                                                *)
(*   kw    the letters `version`         ws    one whitespace character    *)
(*   eq    =      colon  :      dq  "    sq  '      comma  ,               *)
(*   lb    {      rb     }      txt any other text                         *)
(*   ver   a version string (field v)                                      *)
(***************************************************************************)
T(kind) == [k |-> kind, v |-> NoVer]

VerTok(v) == [k |-> "ver", v |-> v]

\* a version string as text, and the version string a piece of text spells
Text(v) == IF v.k = "none" THEN <<>> ELSE <<VerTok(v)>>

Spelled(s) ==
  IF Len(s) = 0 THEN NoVer
  ELSE IF Len(s) = 1 /\ s[1].k = "ver" THEN s[1].v ELSE BadVer

Min(S) == CHOOSE x \in S : \A y \in S : x <= y

Max(S) == CHOOSE x \in S : \A y \in S : x >= y

Kind(c, i) == IF i >= 1 /\ i <= Len(c) THEN c[i].k ELSE "eof"

\* \s* from position i: the first position at or after i that is not whitespace
SkipWs(c, i) == Min({j \in i..(Len(c) + 1) : Kind(c, j) # "ws"})

\* [^q]+ followed by q, from position i: the position of the closing token
\* (0 when there is none or the run is empty)
CloseAt(c, i, closers) ==
  LET js == {j \in i..Len(c) : c[j].k \in closers}
  IN  IF js = {} \/ Min(js) = i THEN 0 ELSE Min(js)

NoMatch == [ok |-> FALSE, from |-> 0, to |-> 0, g1 |-> <<>>, g2 |-> <<>>]

Match(from, to, g1, g2) == [ok |-> TRUE, from |-> from, to |-> to, g1 |-> g1, g2 |-> g2]

\* the first (leftmost) match of a pattern, given its match at every position
FirstMatch(ms) ==
  LET is == {i \in 1..Len(ms) : ms[i].ok}
  IN  IF is = {} THEN NoMatch ELSE ms[Min(is)]

\* String.prototype.replace with a non-global pattern
ReplaceSpan(c, m, r) == SubSeq(c, 1, m.from - 1) \o r \o SubSeq(c, m.to + 1, Len(c))

Includes(s, kind) == \E i \in 1..Len(s) : s[i].k = kind

\* /"version"\s*:\s*"([^"]+)"/ tried at position i
packageJsonAt(c, i) ==
  IF Kind(c, i) = "dq" /\ Kind(c, i + 1) = "kw" /\ Kind(c, i + 2) = "dq"
  THEN LET j == SkipWs(c, i + 3)
           q == SkipWs(c, j + 1)
           e == CloseAt(c, q + 1, {"dq"})
       IN  IF Kind(c, j) = "colon" /\ Kind(c, q) = "dq" /\ e # 0
           THEN Match(i, e, SubSeq(c, q + 1, e - 1), <<>>)
           ELSE NoMatch
  ELSE NoMatch

\* /version\s*[=:]\s*["']([^"']+)["']|version\s*:\s*["']([^"']+)["']\s*,/
\* tried at position i: the first alternative, then the second
typescriptAt(c, i) ==
  IF Kind(c, i) # "kw" THEN NoMatch
  ELSE LET j == SkipWs(c, i + 1)
           q == SkipWs(c, j + 1)
           e == CloseAt(c, q + 1, {"dq", "sq"})
           t == SkipWs(c, e + 1)
       IN  IF Kind(c, j) \in {"eq", "colon"} /\ Kind(c, q) \in {"dq", "sq"} /\ e # 0
           THEN Match(i, e, SubSeq(c, q + 1, e - 1), <<>>)
           ELSE IF Kind(c, j) = "colon" /\ Kind(c, q) \in {"dq", "sq"} /\ e # 0
                   /\ Kind(c, t) = "comma"
                THEN Match(i, t, <<>>, SubSeq(c, q + 1, e - 1))
                ELSE NoMatch

(***************************************************************************)
(* Paths.  The code looks at a path only through its suffix.               *)
(***************************************************************************)
PKG == "package.json"

TS1 == "src/version.ts"

TS2 == "lib/info.ts"

Files == {PKG, TS1, TS2}

\* further source files of a larger project
MoreOrder == <<"pool/w1.ts", "pool/w2.ts", "pool/w3.ts", "pool/w4.ts">>

MoreFiles == {MoreOrder[i] : i \in 1..Len(MoreOrder)}

\* path.join(PROJECT_ROOT, ".gitignore")
GITIGNORE == ".gitignore"

\* join(PROJECT_ROOT, "reliverse.ts"): the configuration file
CFG == "reliverse.ts"

Paths == Files \cup MoreFiles \cup {GITIGNORE, CFG}

\* filePath.endsWith("package.json")
endsWithPackageJson(f) == f = PKG

\* filePath.endsWith(".ts") || filePath.endsWith(".js")
endsWithTsOrJs(f) == f \in {TS1, TS2} \cup MoreFiles

\* /\.(json|jsonc|json5)$/.test(filePath)
isJsonPath(f) == f = PKG

\* filePath.endsWith(".ts")
endsWithTs(f) == f \in {TS1, TS2} \cup MoreFiles

(***************************************************************************)
(* The file system: every path holds a file or nothing; a file has a mode: *)
(* "rw", "ro" (writes fail) or "none" (reads and writes fail).             *)
(***************************************************************************)
VARIABLES fs, perm, call, nCalls

vars == <<fs, perm, call, nCalls>>

Absent == [exists |-> FALSE, data |-> <<>>]

File(c) == [exists |-> TRUE, data |-> c]

\* fs.pathExists / access
pathExists(f) == fs[f].exists

\* readFile(f, "utf-8") on a given disk: ok is FALSE when the read throws
readFileIn(disk, f) ==
  IF disk[f].exists /\ perm[f] # "none"
  THEN [ok |-> TRUE, data |-> disk[f].data, error |-> "none"]
  ELSE [ok |-> FALSE, data |-> <<>>,
        error |-> IF disk[f].exists THEN "EACCES" ELSE "ENOENT"]

readFile(f) == readFileIn(fs, f)

\* writeFile(f, ...) succeeds
canWrite(f) == perm[f] = "rw"

(***************************************************************************)
(* JSON.parse of a manifest and the lookup of its top-level version key.   *)
(***************************************************************************)
Count(c, i, kind) == Cardinality({j \in 1..(i - 1) : c[j].k = kind})

Depth(c, i) == Count(c, i, "lb") - Count(c, i, "rb")

jsonParses(c) ==
  /\ Len(c) >= 2
  /\ c[1].k = "lb"
  /\ c[Len(c)].k = "rb"
  /\ \A i \in 1..Len(c) : c[i].k \notin {"txt", "eq", "sq"}
  /\ \A i \in 2..Len(c) : Depth(c, i) >= 1
  /\ Depth(c, Len(c) + 1) = 0

\* pkg.version of the parsed object: the last top-level "version" member
jsonVersionField(c) ==
  LET is == {i \in 1..Len(c) : Depth(c, i) = 1 /\ packageJsonAt(c, i).ok}
  IN  IF is = {} THEN NoVer ELSE Spelled(packageJsonAt(c, Max(is)).g1)

(***************************************************************************)
(* mod: file type detection, extraction, reading the current version.      *)
(***************************************************************************)
detectFileType(f, content) ==
  IF endsWithPackageJson(f) THEN "package.json"
  ELSE IF endsWithTsOrJs(f) /\ FirstMatch([i \in 1..Len(content) |-> typescriptAt(content, i)]).ok THEN "typescript"
  ELSE "unknown"

\* the captured string, NoVer for null
extractVersion(content, fileType) ==
  CASE fileType = "package.json" ->
         LET m == FirstMatch([i \in 1..Len(content) |-> packageJsonAt(content, i)])
         IN  IF m.ok THEN Spelled(m.g1) ELSE NoVer
    [] fileType = "typescript" ->
         LET m == FirstMatch([i \in 1..Len(content) |-> typescriptAt(content, i)])
         IN  IF ~m.ok THEN NoVer
             ELSE IF m.g1 # <<>> THEN Spelled(m.g1) ELSE Spelled(m.g2)
    [] OTHER -> NoVer

Ok(v) == [err |-> "none", ver |-> v]

Err(e) == [err |-> e, ver |-> NoVer]

\* getCurrentVersion() with its defaults: package.json, field "version"
\* faulty variant of getCurrentVersion: an unresolvable manifest yields the
\* default version 0.0.0 instead of an error
getCurrentVersionWithDefault ==
  LET r == readFile(PKG)
  IN  IF ~r.ok THEN Ok(V(0, 0, 0))
      ELSE IF ~jsonParses(r.data) THEN Ok(V(0, 0, 0))
      ELSE IF jsonVersionField(r.data).k = "none" THEN Ok(V(0, 0, 0))
      ELSE Ok(jsonVersionField(r.data))

getCurrentVersion ==
  LET r == readFile(PKG)
  IN  IF ~r.ok THEN Err("ReadVersionFailed")
      ELSE IF ~jsonParses(r.data) THEN Err("ReadVersionFailed")
      ELSE IF jsonVersionField(r.data).k = "none" THEN Err("NoVersionField")
      ELSE Ok(jsonVersionField(r.data))

\* calculateNewVersion(current, bumpType, customVersion, bumpSet)
\* faulty variant of calculateNewVersion: manual mode without a target keeps
\* the current version instead of failing
calculateNewVersionKeepsCurrent(current, bumpType, customVersion, bumpSet) ==
  IF bumpType = "manual"
  THEN IF bumpSet.k # "none"
       THEN IF ~isValidSemver(bumpSet) THEN Err("InvalidTarget") ELSE Ok(bumpSet)
       ELSE IF customVersion.k = "none" THEN Ok(current)
       ELSE IF ~isValidSemver(customVersion) THEN Err("InvalidTarget")
       ELSE Ok(customVersion)
  ELSE LET releaseType == CASE bumpType = "major" -> "major"
                            [] bumpType = "minor" -> "minor"
                            [] OTHER -> "patch"
           newVersion == semverInc(current, releaseType)
       IN  IF newVersion.k = "none" THEN Err("IncrementFailure") ELSE Ok(newVersion)

calculateNewVersion(current, bumpType, customVersion, bumpSet) ==
  IF bumpType = "manual"
  THEN IF bumpSet.k # "none"
       THEN IF ~isValidSemver(bumpSet) THEN Err("InvalidTarget") ELSE Ok(bumpSet)
       ELSE IF customVersion.k = "none" THEN Err("MissingTarget")
       ELSE IF ~isValidSemver(customVersion) THEN Err("InvalidTarget")
       ELSE Ok(customVersion)
  ELSE LET releaseType == CASE bumpType = "major" -> "major"
                            [] bumpType = "minor" -> "minor"
                            [] OTHER -> "patch"
           newVersion == semverInc(current, releaseType)
       IN  IF newVersion.k = "none" THEN Err("IncrementFailure") ELSE Ok(newVersion)

\* updateVersionInContent(content, newVersion, fileType) of mod
\* faulty variant of updateVersionInContent: in a source file the last match
\* is replaced instead of the first
updateVersionInContentLastMatch(content, newVersion, fileType) ==
  CASE fileType = "package.json" ->
         LET m == FirstMatch([i \in 1..Len(content) |-> packageJsonAt(content, i)])
         IN  IF ~m.ok THEN content
             ELSE ReplaceSpan(content, m,
                    <<T("dq"), T("kw"), T("dq"), T("colon"), T("ws"), T("dq")>>
                    \o Text(newVersion) \o <<T("dq")>>)
    [] fileType = "typescript" ->
         LET is == {i \in 1..Len(content) : typescriptAt(content, i).ok}
             m == IF is = {} THEN NoMatch ELSE typescriptAt(content, Max(is))
             matched == SubSeq(content, m.from, m.to)
             delimiter == IF Includes(matched, "dq") THEN T("dq") ELSE T("sq")
             operator == IF Includes(matched, "eq") THEN T("eq") ELSE T("colon")
             hasComma == Includes(matched, "comma")
         IN  IF ~m.ok THEN content
             ELSE ReplaceSpan(content, m,
                    <<T("kw"), operator, T("ws"), delimiter>> \o Text(newVersion)
                    \o <<delimiter>> \o (IF hasComma THEN <<T("comma")>> ELSE <<>>))
    [] OTHER -> content

updateVersionInContent(content, newVersion, fileType) ==
  CASE fileType = "package.json" ->
         LET m == FirstMatch([i \in 1..Len(content) |-> packageJsonAt(content, i)])
         IN  IF ~m.ok THEN content
             ELSE ReplaceSpan(content, m,
                    <<T("dq"), T("kw"), T("dq"), T("colon"), T("ws"), T("dq")>>
                    \o Text(newVersion) \o <<T("dq")>>)
    [] fileType = "typescript" ->
         LET m == FirstMatch([i \in 1..Len(content) |-> typescriptAt(content, i)])
             matched == SubSeq(content, m.from, m.to)
             delimiter == IF Includes(matched, "dq") THEN T("dq") ELSE T("sq")
             operator == IF Includes(matched, "eq") THEN T("eq") ELSE T("colon")
             hasComma == Includes(matched, "comma")
         IN  IF ~m.ok THEN content
             ELSE ReplaceSpan(content, m,
                    <<T("kw"), operator, T("ws"), delimiter>> \o Text(newVersion)
                    \o <<delimiter>> \o (IF hasComma THEN <<T("comma")>> ELSE <<>>))
    [] OTHER -> content

\* semver.eq(a, b): throws when either side does not parse
semverEqThrows(a, b) == ~semverValid(a) \/ ~semverValid(b)

\* faulty variant of analyzeFile: a file that cannot be read is analysed as an
\* empty file
analyzeFileReadsEmpty(f, referenceVersion) ==
  LET r == readFile(f)
      fileType == detectFileType(f, r.data)
      detectedVersion == extractVersion(r.data, fileType)
      readError == [file |-> f, supported |-> FALSE, detectedVersion |-> NoVer,
                    versionMismatch |-> FALSE, reason |-> "read error",
                    fileType |-> "unknown"]
      result(supported, versionMismatch, reason) ==
        [file |-> f, supported |-> supported, detectedVersion |-> detectedVersion,
         versionMismatch |-> versionMismatch, reason |-> reason, fileType |-> fileType]
  IN  IF fileType = "unknown" THEN result(FALSE, FALSE, "unsupported file type")
      ELSE IF detectedVersion.k = "none" THEN result(FALSE, FALSE, "no version field found")
      ELSE IF semverEqThrows(detectedVersion, referenceVersion) THEN readError
      ELSE IF semverCompare(detectedVersion, referenceVersion) # 0
           THEN result(TRUE, TRUE, "version mismatch")
      ELSE result(TRUE, FALSE, "ok")

\* one iteration of analyzeFiles(files, referenceVersion) of mod
analyzeFile(f, referenceVersion) ==
  LET r == readFile(f)
      fileType == detectFileType(f, r.data)
      detectedVersion == extractVersion(r.data, fileType)
      readError == [file |-> f, supported |-> FALSE, detectedVersion |-> NoVer,
                    versionMismatch |-> FALSE, reason |-> "read error",
                    fileType |-> "unknown"]
      result(supported, versionMismatch, reason) ==
        [file |-> f, supported |-> supported, detectedVersion |-> detectedVersion,
         versionMismatch |-> versionMismatch, reason |-> reason, fileType |-> fileType]
  IN  IF ~r.ok THEN readError
      ELSE IF fileType = "unknown" THEN result(FALSE, FALSE, "unsupported file type")
      ELSE IF detectedVersion.k = "none" THEN result(FALSE, FALSE, "no version field found")
      ELSE IF semverEqThrows(detectedVersion, referenceVersion) THEN readError
      ELSE IF semverCompare(detectedVersion, referenceVersion) # 0
           THEN result(TRUE, TRUE, "version mismatch")
      ELSE result(TRUE, FALSE, "ok")

\* analyzeFiles(files, referenceVersion) of mod: one result per listed file, in order
analyzeFiles(files, referenceVersion) ==
  [i \in 1..Len(files) |-> analyzeFile(files[i], referenceVersion)]

\* analysis.filter((a) => a.supported).map((a) => a.file)
\* faulty variant of supportedFilesOf: every analysed file is kept
supportedFilesOfAll(analysis) == [i \in 1..Len(analysis) |-> analysis[i].file]

supportedFilesOf(analysis) ==
  LET sup == SelectSeq(analysis, LAMBDA a : a.supported)
  IN  [i \in 1..Len(sup) |-> sup[i].file]

(***************************************************************************)
(* Glob patterns of mod (globToRegex / matchesGlobs).  A glob is known by  *)
(* its text; its regular expression is applied to the paths of the model.  *)
(***************************************************************************)
\* globToRegex(glob).test(filePath)
globToRegexTest(glob, f) ==
  CASE glob = "**/*.ts" -> f \in {TS1, TS2} \cup MoreFiles
    [] glob = "*.json" -> f = PKG
    [] OTHER -> FALSE

matchesGlobs(f, globs) ==
  IF Len(globs) = 0 THEN TRUE
  ELSE \E i \in 1..Len(globs) : globToRegexTest(globs[i], f)

(***************************************************************************)
(* The call in progress.                                                   *)
(***************************************************************************)
Idle(disk) ==
  [pc |-> "idle", engine |-> "-", op |-> "-", mode |-> "-", dryRun |-> FALSE,
   disabled |-> FALSE, customVersion |-> NoVer, bumpSet |-> NoVer,
   mainFile |-> PKG, oldVersion |-> NoVer, newVersion |-> NoVer, readCurrent |-> FALSE,
   todo |-> <<>>, candidates |-> <<>>, started |-> <<>>, inflight |-> {}, updateResults |-> {},
   modifiedFiles |-> {}, errorLog |-> {}, writes |-> {}, fs0 |-> disk,
   files |-> <<>>, analysis |-> <<>>, versions |-> <<>>, discovered |-> FALSE, bumpFilter |-> <<>>,
   filePatterns |-> <<>>, ignored |-> {}, outcome |-> "none"]

\* the call returns or throws before the batch
Ended(c, outcome) == [c EXCEPT !.pc = "done", !.outcome = outcome]

\* the call enters its batch over the candidate files
Batch(c, candidates) == [c EXCEPT !.pc = "batch", !.todo = candidates,
                                  !.candidates = candidates]

Entered(engine, op, mode, dryRun, disabled, customVersion, bumpSet) ==
  [Idle(fs) EXCEPT !.engine = engine, !.op = op, !.mode = mode, !.dryRun = dryRun,
                   !.disabled = disabled, !.customVersion = customVersion,
                   !.bumpSet = bumpSet]

\* bumpVersion(bumpType, files, options, globs, bumpSet) of mod up to its loop
bumpVersionEnter(c, bumpType, files, customVersion, globs, bumpSet) ==
  LET currentVersion == getCurrentVersion
      newVersion == calculateNewVersion(currentVersion.ver, bumpType, customVersion, bumpSet)
      filteredFiles == SelectSeq(files, LAMBDA f : matchesGlobs(f, globs))
      c1 == [c EXCEPT !.readCurrent = TRUE, !.oldVersion = currentVersion.ver]
  IN  IF currentVersion.err # "none" THEN Ended(c1, currentVersion.err)
      ELSE IF newVersion.err # "none" THEN Ended(c1, newVersion.err)
      ELSE Batch([c1 EXCEPT !.newVersion = newVersion.ver], filteredFiles)

\* bumpVersionWithAnalysis(bumpType, files, options, bumpSet) of mod up to the loop
bumpVersionWithAnalysisEnter(c, bumpType, files, customVersion, bumpSet) ==
  LET currentVersion == getCurrentVersion
      analysis == analyzeFiles(files, currentVersion.ver)
      supportedFiles == supportedFilesOf(analysis)
  IN  IF currentVersion.err # "none"
      THEN Ended([c EXCEPT !.readCurrent = TRUE], currentVersion.err)
      ELSE bumpVersionEnter(c, bumpType, supportedFiles, customVersion, <<>>, bumpSet)

\* validateBumpConfig(bumpType, customVersion): the error it throws
validateBumpConfig(bumpType, customVersion) ==
  IF bumpType \notin {"patch", "minor", "major", "auto", "manual"} THEN "InvalidMode"
  ELSE IF bumpType = "manual" /\ customVersion.k = "none" THEN "MissingTarget"
  ELSE IF customVersion.k # "none" /\ ~isValidSemver(customVersion) THEN "InvalidTarget"
  ELSE "none"

(***************************************************************************)
(* impl / old: the pattern registry VERSION_PATTERNS of @reliverse/bleregex *)
(* (not part of the sources; modelled from its use and from the spec):     *)
(*   json-version   /"version"\s*:\s*"<old>"/                              *)
(*   ts-property    /(version\s*:\s*["'])<old>(["'])/g                     *)
(*   ts-assignment  /(version\s*=\s*["'])<old>(["'])/g                     *)
(***************************************************************************)
tsPatternIds == <<"ts-property", "ts-assignment">>

jsonVersionAt(old, c, i) ==
  LET m == packageJsonAt(c, i)
  IN  IF m.ok /\ m.g1 = Text(old) /\ old.k # "none" THEN m ELSE NoMatch

\* a ts-* pattern tried at position i; `to` is the position of the version
tsPatternAt(id, old, c, i) ==
  IF Kind(c, i) # "kw" \/ old.k = "none" THEN NoMatch
  ELSE LET j == SkipWs(c, i + 1)
           q == SkipWs(c, j + 1)
           sep == IF id = "ts-property" THEN "colon" ELSE "eq"
       IN  IF Kind(c, j) = sep /\ Kind(c, q) \in {"dq", "sq"}
              /\ Kind(c, q + 1) = "ver" /\ c[q + 1].v = old
              /\ Kind(c, q + 2) \in {"dq", "sq"}
           THEN Match(i, q + 1, <<>>, <<>>)
           ELSE NoMatch

\* regex.test(content) for a ts-* pattern
tsPatternTest(id, old, c) == \E i \in 1..Len(c) : tsPatternAt(id, old, c, i).ok

\* content.replace(regex, `$1${newVersion}$2`) for a ts-* pattern
tsPatternReplace(id, old, new, c) ==
  [p \in 1..Len(c) |->
     IF \E i \in 1..Len(c) : tsPatternAt(id, old, c, i).ok /\ tsPatternAt(id, old, c, i).to = p
     THEN VerTok(new) ELSE c[p]]

\* content.includes(`"version": "${oldVersion}"`)
includesJsonVersion(c, old) ==
  LET needle == <<T("dq"), T("kw"), T("dq"), T("colon"), T("ws"), T("dq")>>
                \o Text(old) \o <<T("dq")>>
  IN  \E i \in 1..(Len(c) - Len(needle) + 1) : SubSeq(c, i, i + Len(needle) - 1) = needle

RECURSIVE applyTsPatterns(_, _, _, _)
\* the loop over the ts-* patterns: <<updatedContent, changed>>
applyTsPatterns(ids, old, new, acc) ==
  IF ids = <<>> THEN acc
  ELSE IF tsPatternTest(Head(ids), old, acc.content)
       THEN applyTsPatterns(Tail(ids), old, new,
              [content |-> tsPatternReplace(Head(ids), old, new, acc.content),
               changed |-> TRUE])
       ELSE applyTsPatterns(Tail(ids), old, new, acc)

\* updateVersionInContent(filePath, content, oldVersion, newVersion) of impl and
\* old, up to its write: the updated content and whether it changed
updateVersionInContentImpl(f, content, oldVersion, newVersion) ==
  IF isJsonPath(f)
  THEN IF includesJsonVersion(content, oldVersion)
       THEN LET m == FirstMatch([i \in 1..Len(content) |-> jsonVersionAt(oldVersion, content, i)])
            IN  [content |-> IF m.ok
                             THEN ReplaceSpan(content, m,
                                    <<T("dq"), T("kw"), T("dq"), T("colon"), T("ws"), T("dq")>>
                                    \o Text(newVersion) \o <<T("dq")>>)
                             ELSE content,
                 changed |-> TRUE]
       ELSE [content |-> content, changed |-> FALSE]
  ELSE IF endsWithTs(f)
  THEN applyTsPatterns(tsPatternIds, oldVersion, newVersion,
                       [content |-> content, changed |-> FALSE])
  ELSE [content |-> content, changed |-> FALSE]

\* autoIncrementVersion(oldVersion, bumpMode) of impl and old
autoIncrementVersion(oldVersion, bumpMode) ==
  IF ~semverValid(oldVersion) THEN Err("InvalidExistingVersion")
  ELSE LET newVer == semverInc(oldVersion,
                       CASE bumpMode = "autoMajor" -> "major"
                         [] bumpMode = "autoMinor" -> "minor"
                         [] OTHER -> "patch")
       IN  IF newVer.k = "none" THEN Err("IncrementFailure") ELSE Ok(newVer)

(***************************************************************************)
(* impl / old: file discovery.  A filter is known by its text and by what  *)
(* the code asks of it.                                                    *)
(***************************************************************************)
Filter(text, star, slash, dot, blank) ==
  [text |-> text, star |-> star, slash |-> slash, dot |-> dot, blank |-> blank]

FilterPkg == Filter("package.json", FALSE, FALSE, TRUE, FALSE)

FilterTs1 == Filter("src/version.ts", FALSE, TRUE, TRUE, FALSE)

FilterStem == Filter("info", FALSE, FALSE, FALSE, FALSE)

FilterGlob == Filter("**/*.ts", TRUE, TRUE, TRUE, FALSE)

FilterBlank == Filter(" ", FALSE, FALSE, FALSE, TRUE)

Pattern(prefix, text, suffix) == [prefix |-> prefix, text |-> text, suffix |-> suffix]

\* the glob pattern pushed for one non-blank filter
filePatternOf(filter) ==
  IF filter.star THEN Pattern("", filter.text, "")
  ELSE IF filter.slash THEN Pattern("**/", filter.text, "")
  ELSE IF filter.dot THEN Pattern("**/", filter.text, "")
  ELSE Pattern("**/", filter.text, ".*")

\* the list filePatterns built from bumpFilter
filePatterns(bumpFilter) ==
  IF Len(bumpFilter) > 0
  THEN LET kept == SelectSeq(bumpFilter, LAMBDA x : ~x.blank)
       IN  [i \in 1..Len(kept) |-> filePatternOf(kept[i])]
  ELSE <<Pattern("**/", "package.json", "")>>

\* the file name without directories and extension
Stem(f) ==
  CASE f = PKG -> "package" [] f = TS1 -> "version" [] f = TS2 -> "info"
    [] f = "pool/w1.ts" -> "w1" [] f = "pool/w2.ts" -> "w2"
    [] f = "pool/w3.ts" -> "w3" [] f = "pool/w4.ts" -> "w4"

\* tinyglobby: does the pattern select the path (relative to the project root)
globHit(p, f) ==
  CASE p.prefix = "**/" /\ p.suffix = "" -> p.text = f
    [] p.prefix = "**/" /\ p.suffix = ".*" -> p.text = Stem(f)
    [] OTHER -> p.text = "**/*.ts" /\ endsWithTs(f)

IGNORE_PATTERNS ==
  {"**/node_modules/**", "**/.git/**", "**/dist/**", "**/build/**", "**/.next/**",
   "**/coverage/**", "**/.cache/**", "**/tmp/**", "**/.temp/**",
   "**/package-lock.json", "**/pnpm-lock.yaml", "**/yarn.lock", "**/bun.lock"}

\* a line of .gitignore, trimmed: lead is "/" or "#" when the line starts with
\* it, trail is "/" when the line ends with it, body is the text in between
GitLine(lead, body, trail) == [lead |-> lead, body |-> body, trail |-> trail]

\* line && !line.startsWith("#")
gitignoreKeeps(line) ==
  /\ ~(line.lead = "" /\ line.body = "" /\ line.trail = "")
  /\ line.lead # "#"

\* the glob pattern made from a line of .gitignore
gitignorePatternOf(line) ==
  IF line.lead = "/" THEN Pattern("", line.body, line.trail)
  ELSE IF line.trail = "/" THEN Pattern("**/", line.body, "/**")
  ELSE Pattern("**/", line.body, "")

\* the initial list ignorePatterns: two literals and IGNORE_PATTERNS
baseIgnorePatterns ==
  {Pattern("", ig, "") : ig \in {"**/node_modules/**", "**/.git/**"} \cup IGNORE_PATTERNS}

\* the patterns the try block around .gitignore pushes (none when the file is
\* absent or its read throws)
gitignorePatterns ==
  LET r == readFile(GITIGNORE)
      kept == SelectSeq(r.data, gitignoreKeeps)
  IN  IF pathExists(GITIGNORE) /\ r.ok
      THEN {gitignorePatternOf(kept[i]) : i \in 1..Len(kept)}
      ELSE {}

\* faulty variant of ignorePatterns: a readable .gitignore replaces the fixed
\* patterns instead of extending them
ignorePatternsGitignoreOnly ==
  IF gitignorePatterns # {} THEN gitignorePatterns ELSE baseIgnorePatterns

\* the list ignorePatterns handed to glob
ignorePatterns == baseIgnorePatterns \cup gitignorePatterns

\* the directory and the file name of a path
Dir(f) == CASE f = TS1 -> "src" [] f = TS2 -> "lib" [] f \in MoreFiles -> "pool" [] OTHER -> ""

Base(f) ==
  CASE f = TS1 -> "version.ts" [] f = TS2 -> "info.ts"
    [] f = "pool/w1.ts" -> "w1.ts" [] f = "pool/w2.ts" -> "w2.ts"
    [] f = "pool/w3.ts" -> "w3.ts" [] f = "pool/w4.ts" -> "w4.ts"
    [] OTHER -> f

\* tinyglobby: does the ignore pattern exclude the path.  No path of the model
\* lies under a directory of IGNORE_PATTERNS or is a lockfile.
ignoreHit(ig, f) ==
  CASE ig.prefix = "**/" /\ ig.suffix = "/**" -> ig.text = Dir(f)
    [] ig.prefix = "**/" /\ ig.suffix = "" -> ig.text = f \/ ig.text = Base(f)
    [] ig.prefix = "" /\ ig.suffix = "/" -> ig.text = Dir(f)
    [] ig.prefix = "" /\ ig.suffix = "" -> ig.text = f
    [] OTHER -> FALSE

FileOrder == <<PKG, TS1, TS2>> \o MoreOrder

\* glob(filePatterns, {ignore: ignorePatterns}): the files found on disk
glob(patterns, ignored) ==
  SelectSeq(FileOrder, LAMBDA f :
    /\ pathExists(f)
    /\ \E i \in 1..Len(patterns) : globHit(patterns[i], f)
    /\ ~\E ig \in ignored : ignoreHit(ig, f))

\* readPackageJSON() of pkg-types followed by the version checks of bumpHandler
readPackageVersion ==
  LET r == readFile(PKG)
  IN  IF ~pathExists(PKG) THEN Err("ReadVersionFailed")
      ELSE IF ~r.ok \/ ~jsonParses(r.data) THEN Err("ReadVersionFailed")
      ELSE IF jsonVersionField(r.data).k = "none" THEN Err("NoVersionField")
      ELSE Ok(jsonVersionField(r.data))

\* /version['"]\s*:\s*['"]([^'"]+)['"]/ tried at position i
oldTsVersionAt(c, i) ==
  IF Kind(c, i) = "kw" /\ Kind(c, i + 1) \in {"dq", "sq"}
  THEN LET j == SkipWs(c, i + 2)
           q == SkipWs(c, j + 1)
           e == CloseAt(c, q + 1, {"dq", "sq"})
       IN  IF Kind(c, j) = "colon" /\ Kind(c, q) \in {"dq", "sq"} /\ e # 0
           THEN Match(i, e, SubSeq(c, q + 1, e - 1), <<>>)
           ELSE NoMatch
  ELSE NoMatch

\* getCurrentVersion(filePath) of old
getCurrentVersionOld(filePath) ==
  LET r == readFile(filePath)
      m == IF isJsonPath(filePath) THEN FirstMatch([i \in 1..Len(r.data) |-> packageJsonAt(r.data, i)])
           ELSE FirstMatch([i \in 1..Len(r.data) |-> oldTsVersionAt(r.data, i)])
  IN  IF ~pathExists(filePath) THEN Err("ReadVersionFailed")
      ELSE IF endsWithPackageJson(filePath) THEN readPackageVersion
      ELSE IF ~r.ok THEN Err("ReadVersionFailed")
      ELSE IF (isJsonPath(filePath) \/ endsWithTs(filePath)) /\ m.ok THEN Ok(Spelled(m.g1))
      ELSE Err("UnparsableVersion")

\* bumpVersions(oldVersion, newVersion, bumpFilter, options) up to pMap
bumpVersionsEnter(c, bumpFilter) ==
  Batch([c EXCEPT !.discovered = TRUE, !.bumpFilter = bumpFilter,
                  !.filePatterns = filePatterns(bumpFilter),
                  !.ignored = ignorePatterns],
        glob(filePatterns(bumpFilter), ignorePatterns))

\* bumpHandler(bumpMode, bumpDisable, bumpFilter, options) of impl up to pMap
bumpHandlerImplEnter(c, bumpMode, bumpDisable, bumpFilter) ==
  LET oldVersion == readPackageVersion
      c1 == [c EXCEPT !.readCurrent = TRUE, !.oldVersion = oldVersion.ver]
      incremented == autoIncrementVersion(oldVersion.ver, bumpMode)
  IN  IF bumpMode \notin {"autoPatch", "autoMinor", "autoMajor"} THEN Ended(c, "InvalidMode")
      ELSE IF bumpDisable THEN Ended(c, "ok")
      ELSE IF oldVersion.err # "none" THEN Ended(c1, oldVersion.err)
      ELSE IF ~semverValid(oldVersion.ver) THEN Ended(c1, "InvalidExistingVersion")
      ELSE IF incremented.err # "none" THEN Ended(c1, incremented.err)
      ELSE IF oldVersion.ver # incremented.ver
           THEN bumpVersionsEnter([c1 EXCEPT !.newVersion = incremented.ver], bumpFilter)
      ELSE Ended([c1 EXCEPT !.newVersion = incremented.ver], "ok")

\* bumpHandler(bumpMode, bumpDisable, bumpFilter, options, customVersion) of old
\* up to pMap
bumpHandlerOldEnter(c, bumpMode, bumpDisable, bumpFilter, mainFile, customVersion) ==
  LET oldVersion == getCurrentVersionOld(mainFile)
      c1 == [c EXCEPT !.readCurrent = TRUE, !.oldVersion = oldVersion.ver]
      incremented == IF bumpMode = "customVersion" THEN Ok(customVersion)
                     ELSE autoIncrementVersion(oldVersion.ver, bumpMode)
  IN  IF bumpMode \notin {"autoPatch", "autoMinor", "autoMajor", "customVersion"}
      THEN Ended(c, "InvalidMode")
      ELSE IF bumpMode = "customVersion" /\ customVersion.k = "none"
      THEN Ended(c, "MissingTarget")
      ELSE IF bumpDisable THEN Ended(c, "ok")
      ELSE IF oldVersion.err # "none" THEN Ended(c1, oldVersion.err)
      ELSE IF ~semverValid(oldVersion.ver) THEN Ended(c1, "InvalidExistingVersion")
      ELSE IF incremented.err # "none" THEN Ended(c1, incremented.err)
      ELSE IF oldVersion.ver # incremented.ver
           THEN bumpVersionsEnter([c1 EXCEPT !.newVersion = incremented.ver], bumpFilter)
      ELSE Ended([c1 EXCEPT !.newVersion = incremented.ver], "ok")

(***************************************************************************)
(* Contents the files of the model may hold initially.                     *)
(***************************************************************************)
\* {"version": "v"}
PkgPlain(v) ==
  <<T("lb"), T("dq"), T("kw"), T("dq"), T("colon"), T("ws"), T("dq"), VerTok(v),
    T("dq"), T("rb")>>

\* {"version" : "v"}
PkgSpaced(v) ==
  <<T("lb"), T("dq"), T("kw"), T("dq"), T("ws"), T("colon"), T("ws"), T("dq"),
    VerTok(v), T("dq"), T("rb")>>

\* {"name": "x"}
PkgNoVersion ==
  <<T("lb"), T("dq"), T("id"), T("dq"), T("colon"), T("ws"), T("dq"), T("id"),
    T("dq"), T("rb")>>

\* export const version = "v";
TsConst(v) ==
  <<T("txt"), T("ws"), T("kw"), T("ws"), T("eq"), T("ws"), T("dq"), VerTok(v),
    T("dq"), T("txt")>>

\* { version: 'v', }
TsProp(v) ==
  <<T("lb"), T("ws"), T("kw"), T("colon"), T("ws"), T("sq"), VerTok(v), T("sq"),
    T("comma"), T("ws"), T("rb")>>

\* { "version": "v" } in a source file
TsQuoted(v) ==
  <<T("lb"), T("ws"), T("dq"), T("kw"), T("dq"), T("colon"), T("ws"), T("dq"),
    VerTok(v), T("dq"), T("ws"), T("rb")>>

\* {"version": "v"  (cut short: JSON.parse throws)
PkgBroken(v) ==
  <<T("lb"), T("dq"), T("kw"), T("dq"), T("colon"), T("ws"), T("dq"), VerTok(v),
    T("dq")>>

\* {"dep": {"version": "n"}, "version": "v"}  (a nested pair before the top-level one)
PkgNested(n, v) ==
  <<T("lb"), T("dq"), T("id"), T("dq"), T("colon"), T("ws"),
    T("lb"), T("dq"), T("kw"), T("dq"), T("colon"), T("ws"), T("dq"), VerTok(n),
    T("dq"), T("rb"), T("comma"), T("ws"),
    T("dq"), T("kw"), T("dq"), T("colon"), T("ws"), T("dq"), VerTok(v), T("dq"),
    T("rb")>>

\* export const version = "v"; { version: 'v', }  (two declarations)
TsTwo(v) == TsConst(v) \o TsProp(v)

\* export const x = 1;
TsNone == <<T("txt"), T("ws"), T("id"), T("ws"), T("eq"), T("ws"), T("txt")>>

PkgContents ==
  {Absent, File(PkgPlain(V(1, 2, 3))), File(PkgSpaced(V(1, 2, 3))),
   File(PkgPlain(BadVer)), File(PkgNoVersion), File(PkgBroken(V(1, 2, 3)))}

Ts1Contents ==
  {Absent, File(TsConst(V(1, 2, 3))), File(TsProp(V(1, 2, 3))),
   File(TsConst(V(2, 0, 0))), File(TsQuoted(V(1, 2, 3))), File(TsTwo(V(1, 2, 3))),
   File(TsNone)}

Ts2Contents == {File(TsProp(V(1, 2, 3)))}

\* at most one file is not writable or not readable
Perms ==
  {[f \in Paths |-> "rw"]}
  \cup {[f \in Paths |-> IF f = g THEN "ro" ELSE "rw"] : g \in Files}
  \cup {[f \in Paths |-> IF f = TS1 THEN "none" ELSE "rw"]}

\* a project directory: the manifest, the two source files, .gitignore and the
\* further source files, which all hold `more`
Disk(pkg, ts1, ts2, gitignore, more) ==
  [f \in Paths |-> CASE f = PKG -> pkg [] f = TS1 -> ts1 [] f = TS2 -> ts2
                     [] f = GITIGNORE -> gitignore [] f = CFG -> Absent
                     [] OTHER -> more]

Init ==
  /\ fs \in {Disk(pkg, ts1, ts2, Absent, Absent) :
               pkg \in PkgContents, ts1 \in Ts1Contents, ts2 \in Ts2Contents}
  /\ perm \in {p \in Perms : \A f \in Files : p[f] # "rw" => fs[f].exists}
  /\ call = Idle(fs)
  /\ nCalls = MaxCalls

(***************************************************************************)
(* Inputs of the calls.                                                    *)
(***************************************************************************)
Targets == {NoVer, V(1, 2, 3), V(2, 0, 0), BadVer}

AllFiles == <<PKG, TS1, TS2>>

FileLists == {<<TS1>>, AllFiles}

FilterLists == {<<>>, <<FilterPkg, FilterTs1>>, <<FilterGlob, FilterBlank, FilterStem>>}

ModModes == {"patch", "minor", "major", "auto", "manual"}

OldModes == {"autoPatch", "autoMinor", "autoMajor", "customVersion"}

\* nCalls: the calls the caller may still make
CanCall == call.pc = "idle" /\ nCalls > 0

Enter(c) ==
  /\ call' = c
  /\ nCalls' = nCalls - 1
  /\ UNCHANGED <<fs, perm>>

(***************************************************************************)
(* mod: the entry points.                                                  *)
(***************************************************************************)
\* bumpVersion(bumpType, files, {dryRun, customVersion}, globs, bumpSet)
BumpVersion(bumpType, files, dryRun, customVersion, globs, bumpSet) ==
  /\ CanCall
  /\ Enter(bumpVersionEnter(
       Entered("mod", "bumpVersion", bumpType, dryRun, FALSE, customVersion, bumpSet),
       bumpType, files, customVersion, globs, bumpSet))

\* bumpHandler(bumpMode, bumpDisable, bumpFilter, bumpSet) of mod
BumpHandler(bumpMode, bumpDisable, bumpFilter, bumpSet) ==
  LET c == Entered("mod", "bumpHandler", bumpMode, FALSE, bumpDisable,
                   IF bumpMode = "manual" THEN bumpSet ELSE NoVer, NoVer)
      files == IF Len(bumpFilter) > 0 THEN bumpFilter ELSE <<PKG>>
  IN  /\ CanCall
      /\ Enter(IF bumpDisable THEN Ended(c, "ok")
               ELSE bumpVersionWithAnalysisEnter(c, bumpMode, files, c.customVersion, NoVer))

\* handleNonInteractiveSession(config)
HandleNonInteractiveSession(bumpType, filesToBump, dryRun, customVersion) ==
  LET c == Entered("mod", "handleNonInteractiveSession", bumpType, dryRun, FALSE,
                   customVersion, NoVer)
      invalid == validateBumpConfig(bumpType, customVersion)
  IN  /\ CanCall
      /\ Enter(IF invalid # "none" THEN Ended(c, invalid)
               ELSE bumpVersionWithAnalysisEnter(c, bumpType, filesToBump, customVersion, NoVer))

(***************************************************************************)
(* impl and old: the entry points.                                         *)
(***************************************************************************)
BumpHandlerImpl(bumpMode, bumpDisable, bumpFilter, dryRun) ==
  /\ CanCall
  /\ Enter(bumpHandlerImplEnter(
       Entered("impl", "bumpHandler", bumpMode, dryRun, bumpDisable, NoVer, NoVer),
       bumpMode, bumpDisable, bumpFilter))

BumpHandlerOld(bumpMode, bumpDisable, bumpFilter, dryRun, mainFile, customVersion) ==
  /\ CanCall
  /\ Enter(bumpHandlerOldEnter(
       [Entered("old", "bumpHandler", bumpMode, dryRun, bumpDisable, customVersion, NoVer)
          EXCEPT !.mainFile = mainFile],
       bumpMode, bumpDisable, bumpFilter, mainFile, customVersion))

(***************************************************************************)
(* The batch: one task per candidate file.  mod runs a for loop (one task  *)
(* at a time); impl and old run pMap with CONCURRENCY_DEFAULT tasks.       *)
(***************************************************************************)
CONCURRENCY_DEFAULT == 5

\* faulty variant of TaskLimit: pMap starts a task for every file at once
TaskLimitUnbounded(engine) == IF engine = "mod" THEN 1 ELSE Len(FileOrder)

\* the tasks that may be in progress at once
TaskLimit(engine) == IF engine = "mod" THEN 1 ELSE CONCURRENCY_DEFAULT

Failure(f, error) == [file |-> f, success |-> FALSE, error |-> error]

Success(f) == [file |-> f, success |-> TRUE, error |-> "none"]

\* a task starts on the next file: existence check (impl, old) and read
StartTask ==
  /\ call.pc = "batch"
  /\ call.todo # <<>>
  /\ Cardinality(call.inflight) < TaskLimit(call.engine)
  /\ LET f == Head(call.todo)
         r == readFile(f)
         c == [call EXCEPT !.todo = Tail(call.todo), !.started = Append(@, f)]
     IN  call' =
           IF call.engine = "mod"
           THEN IF r.ok
                THEN [c EXCEPT !.inflight = @ \cup {[file |-> f, content |-> r.data]}]
                ELSE [c EXCEPT !.updateResults = @ \cup {Failure(f, r.error)}]
           ELSE IF ~pathExists(f) THEN c
           ELSE IF r.ok
                THEN [c EXCEPT !.inflight = @ \cup {[file |-> f, content |-> r.data]}]
                ELSE [c EXCEPT !.errorLog = @ \cup {Failure(f, r.error)}]
  /\ UNCHANGED <<fs, perm, nCalls>>

\* the rest of an iteration of the loop of bumpVersion (mod)
\* faulty variant of modTaskFinish: a failed write is not caught per file, it
\* ends the loop over the remaining files
modTaskFinishAbortsBatch(c, t) ==
  LET fileType == detectFileType(t.file, t.content)
      currentFileVersion == extractVersion(t.content, fileType)
      updatedContent == updateVersionInContent(t.content, c.newVersion, fileType)
  IN  IF fileType = "unknown" \/ currentFileVersion.k = "none"
      THEN [call |-> c, write |-> FALSE, content |-> t.content]
      ELSE IF c.dryRun
      THEN [call |-> [c EXCEPT !.updateResults = @ \cup {Success(t.file)}],
            write |-> FALSE, content |-> t.content]
      ELSE IF canWrite(t.file)
      THEN [call |-> [c EXCEPT !.updateResults = @ \cup {Success(t.file)},
                               !.writes = @ \cup {t.file}],
            write |-> TRUE, content |-> updatedContent]
      ELSE [call |-> [c EXCEPT !.updateResults = @ \cup {Failure(t.file, "EACCES")},
                               !.todo = <<>>],
            write |-> FALSE, content |-> t.content]

\* faulty variant of modTaskFinish: the new version is computed again, for
\* every file, from the manifest as it is on disk by then
modTaskFinishRecomputesVersion(c, t) ==
  LET fileType == detectFileType(t.file, t.content)
      currentFileVersion == extractVersion(t.content, fileType)
      again == calculateNewVersion(getCurrentVersion.ver, c.mode, c.customVersion, c.bumpSet)
      newVersion == IF again.err = "none" THEN again.ver ELSE c.newVersion
      updatedContent == updateVersionInContent(t.content, newVersion, fileType)
  IN  IF fileType = "unknown" \/ currentFileVersion.k = "none"
      THEN [call |-> c, write |-> FALSE, content |-> t.content]
      ELSE IF c.dryRun
      THEN [call |-> [c EXCEPT !.updateResults = @ \cup {Success(t.file)}],
            write |-> FALSE, content |-> t.content]
      ELSE IF canWrite(t.file)
      THEN [call |-> [c EXCEPT !.updateResults = @ \cup {Success(t.file)},
                               !.writes = @ \cup {t.file}],
            write |-> TRUE, content |-> updatedContent]
      ELSE [call |-> [c EXCEPT !.updateResults = @ \cup {Failure(t.file, "EACCES")}],
            write |-> FALSE, content |-> t.content]

\* faulty variant of modTaskFinish: under dry-run every file read is reported
\* as would-be-updated, supported or not
modTaskFinishDryRunReportsAll(c, t) ==
  LET fileType == detectFileType(t.file, t.content)
      currentFileVersion == extractVersion(t.content, fileType)
      updatedContent == updateVersionInContent(t.content, c.newVersion, fileType)
  IN  IF c.dryRun
      THEN [call |-> [c EXCEPT !.updateResults = @ \cup {Success(t.file)}],
            write |-> FALSE, content |-> t.content]
      ELSE IF fileType = "unknown" \/ currentFileVersion.k = "none"
      THEN [call |-> c, write |-> FALSE, content |-> t.content]
      ELSE IF canWrite(t.file)
      THEN [call |-> [c EXCEPT !.updateResults = @ \cup {Success(t.file)},
                               !.writes = @ \cup {t.file}],
            write |-> TRUE, content |-> updatedContent]
      ELSE [call |-> [c EXCEPT !.updateResults = @ \cup {Failure(t.file, "EACCES")}],
            write |-> FALSE, content |-> t.content]

modTaskFinish(c, t) ==
  LET fileType == detectFileType(t.file, t.content)
      currentFileVersion == extractVersion(t.content, fileType)
      updatedContent == updateVersionInContent(t.content, c.newVersion, fileType)
  IN  IF fileType = "unknown" \/ currentFileVersion.k = "none"
      THEN [call |-> c, write |-> FALSE, content |-> t.content]
      ELSE IF c.dryRun
      THEN [call |-> [c EXCEPT !.updateResults = @ \cup {Success(t.file)}],
            write |-> FALSE, content |-> t.content]
      ELSE IF canWrite(t.file)
      THEN [call |-> [c EXCEPT !.updateResults = @ \cup {Success(t.file)},
                               !.writes = @ \cup {t.file}],
            write |-> TRUE, content |-> updatedContent]
      ELSE [call |-> [c EXCEPT !.updateResults = @ \cup {Failure(t.file, "EACCES")}],
            write |-> FALSE, content |-> t.content]

\* the rest of the mapper of bumpVersions (impl, old): updateVersionInContent
\* with its write, then the bookkeeping
implTaskFinish(c, t) ==
  LET u == updateVersionInContentImpl(t.file, t.content, c.oldVersion, c.newVersion)
  IN  IF ~u.changed THEN [call |-> c, write |-> FALSE, content |-> t.content]
      ELSE IF canWrite(t.file)
      THEN [call |-> [c EXCEPT !.modifiedFiles = @ \cup {t.file},
                               !.writes = @ \cup {t.file}],
            write |-> TRUE, content |-> u.content]
      ELSE [call |-> [c EXCEPT !.errorLog = @ \cup {Failure(t.file, "EACCES")}],
            write |-> FALSE, content |-> t.content]

\* a task in progress runs to its end
FinishTask ==
  /\ call.pc = "batch"
  /\ \E t \in call.inflight :
       LET c == [call EXCEPT !.inflight = @ \ {t}]
           r == IF call.engine = "mod" THEN modTaskFinish(c, t) ELSE implTaskFinish(c, t)
       IN  /\ call' = r.call
           /\ fs' = IF r.write THEN [fs EXCEPT ![t.file] = File(r.content)] ELSE fs
  /\ UNCHANGED <<perm, nCalls>>

\* after the last task: the failures of bumpVersion (mod) become one error;
\* bumpVersions (impl, old) only logs
batchOutcome(c) ==
  IF c.engine = "mod" /\ \E r \in c.updateResults : ~r.success THEN "Aggregate" ELSE "ok"

Finish ==
  /\ call.pc = "batch"
  /\ call.todo = <<>>
  /\ call.inflight = {}
  /\ call' = Ended(call, batchOutcome(call))
  /\ UNCHANGED <<fs, perm, nCalls>>

\* the caller has the result; the call's frame is gone
Return ==
  /\ call.pc = "done"
  /\ call' = Idle(fs)
  /\ UNCHANGED <<fs, perm, nCalls>>

Next ==
  \/ \E bumpType \in ModModes, files \in FileLists, dryRun \in BOOLEAN,
        customVersion \in Targets, globs \in {<<>>, <<"**/*.ts">>},
        bumpSet \in {NoVer, V(2, 0, 0)} :
       /\ bumpType # "manual" => customVersion = NoVer /\ bumpSet = NoVer
       /\ bumpSet # NoVer => customVersion = NoVer
       /\ globs # <<>> => Len(files) = 3
       /\ BumpVersion(bumpType, files, dryRun, customVersion, globs, bumpSet)
  \/ \E bumpMode \in ModModes, bumpDisable \in BOOLEAN, bumpFilter \in {<<>>, AllFiles},
        bumpSet \in Targets :
       /\ bumpMode # "manual" => bumpSet = NoVer
       /\ BumpHandler(bumpMode, bumpDisable, bumpFilter, bumpSet)
  \/ \E bumpType \in ModModes, filesToBump \in {AllFiles}, dryRun \in BOOLEAN,
        customVersion \in Targets :
       /\ bumpType # "manual" => customVersion \in {NoVer, BadVer}
       /\ HandleNonInteractiveSession(bumpType, filesToBump, dryRun, customVersion)
  \/ \E bumpMode \in OldModes, bumpDisable \in BOOLEAN, bumpFilter \in FilterLists,
        dryRun \in BOOLEAN :
       BumpHandlerImpl(bumpMode, bumpDisable, bumpFilter, dryRun)
  \/ \E bumpMode \in OldModes, bumpDisable \in BOOLEAN,
        bumpFilter \in {<<>>, <<FilterPkg, FilterTs1>>},
        dryRun \in BOOLEAN, mainFile \in {PKG, TS1}, customVersion \in Targets :
       /\ bumpMode # "customVersion" => customVersion = NoVer
       /\ BumpHandlerOld(bumpMode, bumpDisable, bumpFilter, dryRun, mainFile, customVersion)
  \/ StartTask
  \/ FinishTask
  \/ Finish
  \/ Return

Spec == Init /\ [][Next]_vars

(***************************************************************************)
(* old: analyzeFiles.  The results are kept in the order of the input list *)
(* (pMap pushes them as the tasks complete).                               *)
(***************************************************************************)
\* /"version":\s*"([^"]+)"/ tried at position i
oldJsonVersionAt(c, i) ==
  IF Kind(c, i) = "dq" /\ Kind(c, i + 1) = "kw" /\ Kind(c, i + 2) = "dq"
     /\ Kind(c, i + 3) = "colon"
  THEN LET q == SkipWs(c, i + 4)
           e == CloseAt(c, q + 1, {"dq"})
       IN  IF Kind(c, q) = "dq" /\ e # 0
           THEN Match(i, e, SubSeq(c, q + 1, e - 1), <<>>)
           ELSE NoMatch
  ELSE NoMatch

\* one task of analyzeFiles of old
analyzeFileOld(f, currentVersion) ==
  LET r == readFile(f)
      result(supported, detectedVersion, reason) ==
        [file |-> f, supported |-> supported, detectedVersion |-> detectedVersion,
         versionMismatch |-> detectedVersion.k # "none" /\ detectedVersion # currentVersion,
         reason |-> reason, fileType |-> "-"]
      jsonSupported == \E i \in 1..Len(r.data) : jsonVersionAt(currentVersion, r.data, i).ok
      jsonMatch == FirstMatch([i \in 1..Len(r.data) |-> oldJsonVersionAt(r.data, i)])
      tsSupported == \E n \in 1..Len(tsPatternIds) :
                       tsPatternTest(tsPatternIds[n], currentVersion, r.data)
      tsMatch == FirstMatch([i \in 1..Len(r.data) |-> oldTsVersionAt(r.data, i)])
      detected(supported, m) == IF supported /\ m.ok THEN Spelled(m.g1) ELSE NoVer
      unsupported == "No supported version patterns found"
  IN  IF ~pathExists(f) THEN result(FALSE, NoVer, "File does not exist")
      ELSE IF ~r.ok THEN result(FALSE, NoVer, "Error analyzing file")
      ELSE IF isJsonPath(f)
      THEN result(jsonSupported, detected(jsonSupported, jsonMatch),
                  IF jsonSupported THEN "none" ELSE unsupported)
      ELSE IF endsWithTs(f)
      THEN result(tsSupported, detected(tsSupported, tsMatch),
                  IF tsSupported THEN "none" ELSE unsupported)
      ELSE result(FALSE, NoVer, unsupported)

analyzeFilesOld(files, currentVersion) ==
  [i \in 1..Len(files) |-> analyzeFileOld(files[i], currentVersion)]

(***************************************************************************)
(* Direct calls of the exported functions: the update step on one file,    *)
(* the version increment, the file analysis and the interactive sessions.  *)
(***************************************************************************)
MaxPart == 1

\* the valid versions with components up to MaxPart, with and without a tag
Versions ==
  {V(a, b, c) : a \in 0..MaxPart, b \in 0..MaxPart, c \in 0..MaxPart}
  \cup {Pre(a, b, c) : a \in 0..MaxPart, b \in 0..MaxPart, c \in 0..MaxPart}

References == {V(1, 2, 3), V(2, 0, 0), BadVer}

\* one iteration of the loop of bumpVersion on a readable, writable file:
\* detectFileType, extractVersion, updateVersionInContent, writeFile
UpdateFile(f, newVersion) ==
  LET r == readFile(f)
      fileType == detectFileType(f, r.data)
      c == Entered("mod", "updateVersionInContent", "-", FALSE, FALSE, NoVer, NoVer)
  IN  /\ CanCall
      /\ r.ok
      /\ canWrite(f)
      /\ fileType # "unknown"
      /\ extractVersion(r.data, fileType) # NoVer
      /\ fs' = [fs EXCEPT ![f].data = updateVersionInContent(r.data, newVersion, fileType)]
      /\ call' = Ended([c EXCEPT !.oldVersion = extractVersion(r.data, fileType),
                                 !.newVersion = newVersion,
                                 !.candidates = <<f>>,
                                 !.writes = {f}], "ok")
      /\ nCalls' = nCalls - 1
      /\ UNCHANGED perm

\* calculateNewVersion(current, bumpType) in an automatic mode
CalculateNewVersion(current, bumpType) ==
  LET r == calculateNewVersion(current, bumpType, NoVer, NoVer)
      c == Entered("mod", "calculateNewVersion", bumpType, FALSE, FALSE, NoVer, NoVer)
  IN  /\ CanCall
      /\ Enter(Ended([c EXCEPT !.oldVersion = current, !.newVersion = r.ver],
                     IF r.err = "none" THEN "ok" ELSE r.err))

\* autoIncrementVersion(oldVersion, bumpMode)
AutoIncrementVersion(oldVersion, bumpMode) ==
  LET r == autoIncrementVersion(oldVersion, bumpMode)
      c == Entered("impl", "autoIncrementVersion", bumpMode, FALSE, FALSE, NoVer, NoVer)
  IN  /\ CanCall
      /\ Enter(Ended([c EXCEPT !.oldVersion = oldVersion, !.newVersion = r.ver],
                     IF r.err = "none" THEN "ok" ELSE r.err))

\* analyzeFiles(files, referenceVersion) of mod
AnalyzeFiles(files, referenceVersion) ==
  LET c == Entered("mod", "analyzeFiles", "-", FALSE, FALSE, NoVer, NoVer)
  IN  /\ CanCall
      /\ Enter(Ended([c EXCEPT !.files = files,
                               !.oldVersion = referenceVersion,
                               !.analysis = analyzeFiles(files, referenceVersion)], "ok"))

\* analyzeFiles(files, currentVersion) of old
AnalyzeFilesOld(files, currentVersion) ==
  LET c == Entered("old", "analyzeFiles", "-", FALSE, FALSE, NoVer, NoVer)
  IN  /\ CanCall
      /\ Enter(Ended([c EXCEPT !.files = files,
                               !.oldVersion = currentVersion,
                               !.analysis = analyzeFilesOld(files, currentVersion)], "ok"))

\* the outcome of an interactive session after its analysis
sessionOutcome(analysis, mismatchIsError) ==
  IF \A i \in 1..Len(analysis) : ~analysis[i].supported THEN "NoSupportedFiles"
  ELSE IF mismatchIsError /\ \E i \in 1..Len(analysis) : analysis[i].versionMismatch
       THEN "VersionMismatch"
  ELSE "ok"

\* handleInteractiveSession(config, projectVersion) of mod
HandleInteractiveSession(filesToBump, projectVersion) ==
  LET c == Entered("mod", "handleInteractiveSession", "-", FALSE, FALSE, NoVer, NoVer)
      fileAnalysis == analyzeFiles(filesToBump, projectVersion)
  IN  /\ CanCall
      /\ Enter(Ended([c EXCEPT !.files = filesToBump,
                               !.oldVersion = projectVersion,
                               !.analysis = fileAnalysis],
                     sessionOutcome(fileAnalysis, TRUE)))

\* the interactive session of the old command line up to its bump-mode prompt:
\* the project version ("unknown" when it cannot be read), the analysis, the
\* exit when nothing is supported, the mismatch warning
RunInteractive(filesToBump, mainFile) ==
  LET c == Entered("old", "run", "-", FALSE, FALSE, NoVer, NoVer)
      r == getCurrentVersionOld(mainFile)
      projectVersion == IF r.err = "none" THEN r.ver ELSE BadVer
      fileAnalysis == analyzeFilesOld(filesToBump, projectVersion)
  IN  /\ CanCall
      /\ Enter(Ended([c EXCEPT !.files = filesToBump,
                               !.mainFile = mainFile,
                               !.oldVersion = projectVersion,
                               !.analysis = fileAnalysis],
                     sessionOutcome(fileAnalysis, FALSE)))

MaxVersions == 2

\* semver.satisfies(v, "*"): a version with a prerelease tag is outside the
\* range unless includePrerelease is set
semverSatisfiesAny(v) == semverValid(v) /\ v.pre = 0

RECURSIVE semverMaxSatisfying(_, _)
\* semver.maxSatisfying(versions, "*"): the loop over the versions with the
\* maximum found so far (NoVer for null)
semverMaxSatisfying(versions, max) ==
  IF versions = <<>> THEN max
  ELSE LET v == Head(versions)
       IN  IF semverSatisfiesAny(v) /\ (max = NoVer \/ semverCompare(max, v) = -1)
           THEN semverMaxSatisfying(Tail(versions), v)
           ELSE semverMaxSatisfying(Tail(versions), max)

\* getLatestVersion(versions): NoVer for null
getLatestVersion(versions) ==
  LET validVersions == SelectSeq(versions, isValidSemver)
  IN  IF Len(validVersions) = 0 THEN NoVer
      ELSE semverMaxSatisfying(validVersions, NoVer)

\* the lists of at most MaxVersions strings handed to getLatestVersion
VersionLists ==
  UNION {[1..n -> {V(1, 2, 3), V(2, 0, 0), Pre(2, 0, 0), BadVer}] : n \in 0..MaxVersions}

GetLatestVersion(versions) ==
  LET c == Entered("mod", "getLatestVersion", "-", FALSE, FALSE, NoVer, NoVer)
  IN  /\ CanCall
      /\ Enter(Ended([c EXCEPT !.versions = versions,
                               !.newVersion = getLatestVersion(versions)], "ok"))

NextFn ==
  \/ \E versions \in VersionLists : GetLatestVersion(versions)
  \/ \E f \in Files, newVersion \in Versions : UpdateFile(f, newVersion)
  \/ \E current \in Versions \cup {BadVer}, bumpType \in ModModes \ {"manual"} :
       CalculateNewVersion(current, bumpType)
  \/ \E oldVersion \in Versions \cup {BadVer}, bumpMode \in OldModes \ {"customVersion"} :
       AutoIncrementVersion(oldVersion, bumpMode)
  \/ \E files \in FileLists, referenceVersion \in References :
       AnalyzeFiles(files, referenceVersion)
  \/ \E files \in FileLists, currentVersion \in References :
       AnalyzeFilesOld(files, currentVersion)
  \/ \E filesToBump \in FileLists, projectVersion \in References :
       HandleInteractiveSession(filesToBump, projectVersion)
  \/ \E filesToBump \in FileLists, mainFile \in {PKG, TS1} :
       RunInteractive(filesToBump, mainFile)

SpecFn == Init /\ [][NextFn]_vars

(***************************************************************************)
(* Re-invocation: every file holds the same version, one file is not       *)
(* writable, and the caller runs the whole bump over all the files again   *)
(* and again, making the file writable in between if it chooses to.        *)
(***************************************************************************)
RetryCalls == 2

InitRetry ==
  /\ fs \in {Disk(File(PkgPlain(V(1, 2, 3))), ts1, File(TsProp(V(1, 2, 3))), Absent, Absent) :
               ts1 \in {File(TsConst(V(1, 2, 3))), File(TsProp(V(1, 2, 3)))}}
  /\ perm \in {[f \in Paths |-> IF f = g THEN "ro" ELSE "rw"] : g \in Files}
  /\ call = Idle(fs)
  /\ nCalls = RetryCalls

\* between two calls the file permissions are repaired
MakeWritable ==
  /\ call.pc = "idle"
  /\ nCalls < RetryCalls
  /\ perm' = [f \in Paths |-> "rw"]
  /\ UNCHANGED <<fs, call, nCalls>>

NextRetry ==
  \/ \E bumpMode \in OldModes \ {"customVersion"} :
       BumpHandlerImpl(bumpMode, FALSE, <<FilterPkg, FilterGlob>>, FALSE)
  \/ \E bumpType \in {"patch", "manual"} :
       BumpVersion(bumpType, AllFiles, FALSE, NoVer, <<>>,
                   IF bumpType = "manual" THEN V(2, 0, 0) ELSE NoVer)
  \/ MakeWritable
  \/ StartTask
  \/ FinishTask
  \/ Finish
  \/ Return

SpecRetry == InitRetry /\ [][NextRetry]_vars

(***************************************************************************)
(* File discovery: bumpHandler of impl and old over projects with and      *)
(* without a .gitignore, readable or not, and over filter lists of every   *)
(* shape.                                                                  *)
(***************************************************************************)
\* # build output / (blank) / /src/version.ts / lib/ / *.log
GitignoreLines ==
  <<GitLine("#", "build output", ""), GitLine("", "", ""),
    GitLine("/", "src/version.ts", ""), GitLine("", "lib", "/"),
    GitLine("", "*.log", "")>>

GitignoreContents ==
  {Absent, File(<<>>), File(GitignoreLines), File(<<GitLine("", "lib", "/")>>)}

InitDiscover ==
  /\ fs \in {Disk(File(PkgPlain(V(1, 2, 3))), ts1, File(TsProp(V(1, 2, 3))), gitignore, Absent) :
               ts1 \in {Absent, File(TsConst(V(1, 2, 3)))}, gitignore \in GitignoreContents}
  /\ perm \in {p \in [Paths -> {"rw", "none"}] :
                 /\ \A f \in Paths \ {GITIGNORE} : p[f] = "rw"
                 /\ p[GITIGNORE] = "none" => fs[GITIGNORE].exists}
  /\ call = Idle(fs)
  /\ nCalls = MaxCalls

DiscoverFilterLists ==
  FilterLists \cup {<<FilterBlank>>, <<FilterStem>>, <<FilterPkg, FilterGlob>>}

NextDiscover ==
  \/ \E bumpMode \in OldModes \ {"customVersion"}, bumpFilter \in DiscoverFilterLists,
        dryRun \in BOOLEAN :
       BumpHandlerImpl(bumpMode, FALSE, bumpFilter, dryRun)
  \/ \E bumpMode \in OldModes, bumpFilter \in DiscoverFilterLists :
       BumpHandlerOld(bumpMode, FALSE, bumpFilter, FALSE, PKG,
                      IF bumpMode = "customVersion" THEN V(2, 0, 0) ELSE NoVer)
  \/ StartTask
  \/ FinishTask
  \/ Finish
  \/ Return

SpecDiscover == InitDiscover /\ [][NextDiscover]_vars

(***************************************************************************)
(* The worker pool: a project with more files than the pool has workers.   *)
(* Here analyzeFiles runs task by task: the for loop of mod, pMap of old,  *)
(* the results pushed as the tasks complete.                               *)
(***************************************************************************)
InitPool ==
  /\ fs = Disk(File(PkgPlain(V(1, 2, 3))), File(TsConst(V(1, 2, 3))),
               File(TsProp(V(1, 2, 3))), Absent, File(TsProp(V(1, 2, 3))))
  /\ perm \in {[f \in Paths |-> "rw"], [f \in Paths |-> IF f = TS1 THEN "ro" ELSE "rw"]}
  /\ call = Idle(fs)
  /\ nCalls = MaxCalls

\* analyzeFiles(files, version) of mod or old up to its first task
AnalyzeFilesBegin(engine, files, version) ==
  LET c == Entered(engine, "analyzeFiles", "-", FALSE, FALSE, NoVer, NoVer)
  IN  /\ CanCall
      /\ Enter([c EXCEPT !.pc = "analysis", !.files = files, !.todo = files,
                         !.candidates = files, !.oldVersion = version])

\* a task of analyzeFiles starts on the next file
StartAnalysisTask ==
  /\ call.pc = "analysis"
  /\ call.todo # <<>>
  /\ Cardinality(call.inflight) < TaskLimit(call.engine)
  /\ call' = [call EXCEPT !.todo = Tail(@), !.started = Append(@, Head(call.todo)),
                          !.inflight = @ \cup {[file |-> Head(call.todo), content |-> <<>>]}]
  /\ UNCHANGED <<fs, perm, nCalls>>

\* a task of analyzeFiles pushes its result
FinishAnalysisTask ==
  /\ call.pc = "analysis"
  /\ \E t \in call.inflight :
       call' = [call EXCEPT !.inflight = @ \ {t},
                            !.analysis = Append(@, IF call.engine = "mod"
                                                   THEN analyzeFile(t.file, call.oldVersion)
                                                   ELSE analyzeFileOld(t.file, call.oldVersion))]
  /\ UNCHANGED <<fs, perm, nCalls>>

\* analyzeFiles returns its results
FinishAnalysis ==
  /\ call.pc = "analysis"
  /\ call.todo = <<>>
  /\ call.inflight = {}
  /\ call' = Ended(call, "ok")
  /\ UNCHANGED <<fs, perm, nCalls>>

NextPool ==
  \/ \E bumpMode \in OldModes \ {"customVersion"},
        bumpFilter \in {<<FilterGlob>>, <<FilterPkg, FilterGlob>>} :
       BumpHandlerImpl(bumpMode, FALSE, bumpFilter, FALSE)
  \/ BumpHandlerOld("autoPatch", FALSE, <<FilterPkg, FilterGlob>>, FALSE, PKG, NoVer)
  \/ \E dryRun \in BOOLEAN : BumpVersion("patch", FileOrder, dryRun, NoVer, <<>>, NoVer)
  \/ \E engine \in {"mod", "old"} : AnalyzeFilesBegin(engine, FileOrder, V(1, 2, 3))
  \/ StartTask
  \/ FinishTask
  \/ Finish
  \/ StartAnalysisTask
  \/ FinishAnalysisTask
  \/ FinishAnalysis
  \/ Return

SpecPool == InitPool /\ [][NextPool]_vars

(***************************************************************************)
(* Manifests with more than one "version" pair: the bumps of the three     *)
(* engines over a project whose package.json holds a nested pair before    *)
(* the top-level one.                                                      *)
(***************************************************************************)
ManifestContents ==
  {File(PkgPlain(V(1, 2, 3))), File(PkgNested(V(2, 0, 0), V(1, 2, 3))),
   File(PkgNested(V(1, 2, 3), V(1, 2, 3)))}

InitManifest ==
  /\ fs \in {Disk(pkg, File(TsConst(V(1, 2, 3))), File(TsProp(V(1, 2, 3))), Absent, Absent) :
               pkg \in ManifestContents}
  /\ perm \in {[f \in Paths |-> "rw"], [f \in Paths |-> IF f = TS1 THEN "ro" ELSE "rw"]}
  /\ call = Idle(fs)
  /\ nCalls = MaxCalls

NextManifest ==
  \/ \E bumpType \in {"patch", "major", "manual"}, files \in {<<PKG>>, AllFiles},
        dryRun \in BOOLEAN :
       BumpVersion(bumpType, files, dryRun, NoVer, <<>>,
                   IF bumpType = "manual" THEN V(2, 0, 0) ELSE NoVer)
  \/ \E bumpMode \in {"patch", "minor"}, bumpFilter \in {<<>>, AllFiles} :
       BumpHandler(bumpMode, FALSE, bumpFilter, NoVer)
  \/ \E bumpMode \in OldModes \ {"customVersion"},
        bumpFilter \in {<<>>, <<FilterPkg, FilterGlob>>}, dryRun \in BOOLEAN :
       BumpHandlerImpl(bumpMode, FALSE, bumpFilter, dryRun)
  \/ \E bumpMode \in OldModes, bumpFilter \in {<<>>, <<FilterPkg, FilterTs1>>} :
       BumpHandlerOld(bumpMode, FALSE, bumpFilter, FALSE, PKG,
                      IF bumpMode = "customVersion" THEN V(2, 0, 0) ELSE NoVer)
  \/ StartTask
  \/ FinishTask
  \/ Finish
  \/ Return

SpecManifest == InitManifest /\ [][NextManifest]_vars

(***************************************************************************)
(* Pause and resume: the bumpDisable entry of the configuration file.      *)
(* Tokens of its content: key (the word bumpDisable), colon, eq, ws,       *)
(* true, false, comma, lb, rb, dq and txt (any other text).                *)
(***************************************************************************)
ConfigCalls == 3

\* new RegExp(`bumpDisable\\s*[:=]\\s*([^,}\\]]+)`) tried at position i: the
\* value runs up to the next comma or closing brace (no content of the model
\* holds a closing bracket)
updatePatternAt(c, i) ==
  IF Kind(c, i) # "key" THEN NoMatch
  ELSE LET j == SkipWs(c, i + 1)
           closers == {p \in (j + 1)..Len(c) : c[p].k \in {"comma", "rb"}}
           e == IF closers = {} THEN Len(c) ELSE Min(closers) - 1
       IN  IF Kind(c, j) \in {"colon", "eq"} /\ e >= j + 1
           THEN Match(i, e, SubSeq(c, j + 1, e), <<>>)
           ELSE NoMatch

\* /bumpDisable\s*[:=]\s*(true|false)/ tried at position i
bumpDisableAt(c, i) ==
  IF Kind(c, i) # "key" THEN NoMatch
  ELSE LET j == SkipWs(c, i + 1)
           q == SkipWs(c, j + 1)
       IN  IF Kind(c, j) \in {"colon", "eq"} /\ Kind(c, q) \in {"true", "false"}
           THEN Match(i, q, <<c[q]>>, <<>>)
           ELSE NoMatch

\* faulty variant of formattedValue: a boolean is written as a quoted string
formattedValueQuoted(value) ==
  <<T("dq"), T(IF value THEN "true" ELSE "false"), T("dq")>>

\* formattedValue of updateDlerConfig for a boolean value
formattedValue(value) == <<T(IF value THEN "true" ELSE "false")>>

\* updateDlerConfig("bumpDisable", value): the file it leaves
updateDlerConfig(value) ==
  LET r == readFile(CFG)
      m == FirstMatch([i \in 1..Len(r.data) |-> updatePatternAt(r.data, i)])
      updatedContent ==
        IF m.ok
        THEN ReplaceSpan(r.data, m, <<T("key"), T("colon"), T("ws")>> \o formattedValue(value))
        ELSE r.data
  IN  IF ~pathExists(CFG) THEN fs[CFG]
      ELSE IF ~r.ok \/ ~canWrite(CFG) THEN fs[CFG]
      ELSE File(updatedContent)

\* getConfigFromDler().bumpDisable ?? false
isBumpDisabled ==
  LET r == readFile(CFG)
      bumpDisableMatch == FirstMatch([i \in 1..Len(r.data) |-> bumpDisableAt(r.data, i)])
  IN  IF ~r.ok THEN FALSE
      ELSE IF bumpDisableMatch.ok THEN bumpDisableMatch.g1[1].k = "true"
      ELSE FALSE

\* export default { bumpDisable: b, bumpMode }
CfgFirst(b) ==
  <<T("txt"), T("ws"), T("lb"), T("ws"), T("key"), T("colon"), T("ws"), T(b),
    T("comma"), T("ws"), T("txt"), T("ws"), T("rb")>>

\* { bumpMode, bumpDisable = b }
CfgLast(b) ==
  <<T("lb"), T("ws"), T("txt"), T("comma"), T("ws"), T("key"), T("ws"), T("eq"),
    T("ws"), T(b), T("ws"), T("rb")>>

\* // bumpDisable: pauses the bump  { bumpDisable: b, }
CfgCommented(b) ==
  <<T("txt"), T("key"), T("colon"), T("ws"), T("txt"), T("ws"), T("lb"), T("ws"),
    T("key"), T("colon"), T("ws"), T(b), T("comma"), T("ws"), T("rb")>>

\* { bumpMode }
CfgNoEntry == <<T("lb"), T("ws"), T("txt"), T("ws"), T("rb")>>

ConfigContents ==
  {Absent, File(CfgNoEntry)}
  \cup {File(CfgFirst(b)) : b \in {"true", "false"}}
  \cup {File(CfgLast(b)) : b \in {"true", "false"}}
  \cup {File(CfgCommented(b)) : b \in {"true", "false"}}

InitConfig ==
  /\ fs \in {[Disk(File(PkgPlain(V(1, 2, 3))), Absent, Absent, Absent, Absent)
                EXCEPT ![CFG] = cfg] : cfg \in ConfigContents}
  /\ perm \in {p \in [Paths -> {"rw", "ro", "none"}] :
                 /\ \A f \in Paths \ {CFG} : p[f] = "rw"
                 /\ p[CFG] # "rw" => fs[CFG].exists}
  /\ call = Idle(fs)
  /\ nCalls = ConfigCalls

\* setBumpDisabledValueTo(value)
SetBumpDisabledValueTo(value) ==
  LET c == Entered("mod", "setBumpDisabledValueTo", "-", FALSE, value, NoVer, NoVer)
  IN  /\ CanCall
      /\ fs' = [fs EXCEPT ![CFG] = updateDlerConfig(value)]
      /\ call' = Ended(c, "ok")
      /\ nCalls' = nCalls - 1
      /\ UNCHANGED perm

\* isBumpDisabled()
IsBumpDisabled ==
  /\ CanCall
  /\ Enter(Ended(Entered("mod", "isBumpDisabled", "-", FALSE, isBumpDisabled, NoVer, NoVer),
                 "ok"))

NextConfig ==
  \/ \E value \in BOOLEAN : SetBumpDisabledValueTo(value)
  \/ IsBumpDisabled
  \/ Return

SpecConfig == InitConfig /\ [][NextConfig]_vars

(***************************************************************************)
(* Properties.                                                             *)
(***************************************************************************)
Done == call.pc = "done"

Cand == {call.candidates[i] : i \in 1..Len(call.candidates)}

\* the per-file failures the batch has recorded (mod) or logged (impl, old)
FailureEntries == {r \in call.updateResults : ~r.success} \cup call.errorLog

\* the engine finds a version declaration it rewrites in the content
Recognised(engine, f, content, old) ==
  IF engine = "mod"
  THEN /\ detectFileType(f, content) # "unknown"
       /\ extractVersion(content, detectFileType(f, content)) # NoVer
  ELSE updateVersionInContentImpl(f, content, old, old).changed

\* the declaration the engine rewrites holds version v
HoldsVersion(engine, f, content, v) ==
  IF engine = "mod"
  THEN extractVersion(content, detectFileType(f, content)) = v
  ELSE updateVersionInContentImpl(f, content, v, v).changed

OnlyVersionsDiffer(a, b) ==
  /\ Len(a) = Len(b)
  /\ \A i \in 1..Len(a) : a[i] # b[i] => a[i].k = "ver" /\ b[i].k = "ver"

\* C1: a bump run with dryRun = true leaves the content of every file as it
\* was when the call started, and performs no write.
C1_DryRunWritesNothing == call.dryRun => (fs = call.fs0 /\ call.writes = {})

\* C2 (precondition): a finished non-dry-run batch whose candidates all exist,
\* are readable and hold a recognised declaration, exactly one of them, k,
\* being unwritable.
C2_OneUnwritable(k) ==
  /\ Done
  /\ ~call.dryRun
  /\ k \in Cand
  /\ perm[k] = "ro"
  /\ \A f \in Cand :
       /\ call.fs0[f].exists
       /\ perm[f] # "none"
       /\ f # k => perm[f] = "rw"
       /\ Recognised(call.engine, f, call.fs0[f].data, call.oldVersion)

\* C2: partial failure isolation: with exactly one unwritable candidate k, every
\* other candidate is written and holds the new version, k is unchanged, and
\* the failure entries are exactly one entry, for k.
C2_PartialFailureIsolation ==
  \A k \in Files :
    C2_OneUnwritable(k) =>
      /\ \A f \in Cand \ {k} :
           /\ f \in call.writes
           /\ HoldsVersion(call.engine, f, fs[f].data, call.newVersion)
      /\ fs[k] = call.fs0[k]
      /\ FailureEntries = {Failure(k, "EACCES")}

C2_Witness ==
  /\ C2_OneUnwritable(TS1)
  /\ call.engine = "mod"
  /\ Cand = Files
  /\ call.writes = {PKG, TS2}

\* C3: a bump call ends with the aggregate failure if and only if at least one
\* per-file read or write failed during the batch, and only once every
\* candidate has been attempted.
C3_AggregateIffAnyFailure ==
  Done =>
    /\ (call.outcome = "Aggregate") <=> (FailureEntries # {})
    /\ call.outcome = "Aggregate" => call.todo = <<>> /\ call.inflight = {}

\* C4: with the disabled flag set the handler returns normally, whatever its
\* other arguments are, without reading the current version and without
\* writing.
C4_DisabledShortCircuits ==
  (Done /\ call.disabled) =>
    /\ call.outcome = "ok"
    /\ ~call.readCurrent
    /\ call.writes = {}
    /\ fs = call.fs0

\* C5: when the new version equals the current version the bump is a no-op:
\* it writes no file and every file is as it was.
C5_SameVersionIsNoOp ==
  (call.newVersion # NoVer /\ call.newVersion = call.oldVersion) =>
    /\ call.writes = {}
    /\ fs = call.fs0

\* C6 (precondition): a call in manual mode with no target, not disabled.
C6_ManualNoTarget ==
  /\ call.pc # "idle"
  /\ call.engine \in {"mod", "old"}
  /\ call.mode \in {"manual", "customVersion"}
  /\ call.customVersion = NoVer
  /\ call.bumpSet = NoVer
  /\ ~call.disabled

\* C6 as stated: in manual mode with no target the bump fails with the
\* missing-target error, no file written.
C6_MissingTargetAlways ==
  (Done /\ C6_ManualNoTarget) =>
    /\ call.outcome = "MissingTarget"
    /\ fs = call.fs0
    /\ call.writes = {}

\* the manifest of disk d gives no current version
ManifestUnresolvable(d) ==
  \/ ~readFileIn(d, PKG).ok
  \/ ~jsonParses(d[PKG].data)
  \/ jsonVersionField(d[PKG].data) = NoVer

\* C6 as amended: in manual mode with no target the bump never reaches its
\* batch and fails with no file written; the failure is the missing-target
\* error, except that bumpVersion and bumpHandler of mod, which read the
\* manifest first, fail with the read error when the manifest gives no version.
C6_MissingTargetNoWrite ==
  C6_ManualNoTarget =>
    /\ Done
    /\ fs = call.fs0
    /\ call.writes = {}
    /\ \/ call.outcome = "MissingTarget"
       \/ /\ call.outcome \in {"ReadVersionFailed", "NoVersionField"}
          /\ call.engine = "mod"
          /\ call.op \in {"bumpVersion", "bumpHandler"}
          /\ ManifestUnresolvable(call.fs0)
    /\ (call.outcome = "MissingTarget" /\ call.engine = "mod"
        /\ call.op \in {"bumpVersion", "bumpHandler"})
         => ~ManifestUnresolvable(call.fs0)

C6_Witness ==
  /\ Done
  /\ C6_ManualNoTarget
  /\ call.op = "bumpVersion"
  /\ call.outcome = "MissingTarget"
  /\ \E f \in Files : Recognised("mod", f, fs[f].data, call.oldVersion)

\* C7: for every mode, when the current version read from the source is not
\* valid semver the bump fails and writes no file.
C7_InvalidCurrentFails ==
  (call.readCurrent /\ call.oldVersion.k = "bad") =>
    /\ call.outcome # "ok"
    /\ call.writes = {}
    /\ fs = call.fs0

\* C8: every version string a bump writes into a file is valid semver.
C8_WrittenVersionsValid == call.writes # {} => isValidSemver(call.newVersion)

\* the version source of the call gives no current version on disk d
C9_Unresolvable(d) ==
  IF call.engine = "old" /\ call.mainFile # PKG
  THEN \/ ~readFileIn(d, call.mainFile).ok
       \/ ~FirstMatch([i \in 1..Len(d[call.mainFile].data) |-> oldTsVersionAt(d[call.mainFile].data, i)]).ok
  ELSE ManifestUnresolvable(d)

\* C9: when the current version cannot be resolved, reading it fails and the
\* bump aborts at once: it fails with the read error, has no candidate and
\* writes nothing.
C9_UnresolvableAborts ==
  (call.readCurrent /\ C9_Unresolvable(call.fs0)) =>
    /\ Done
    /\ call.outcome \in {"ReadVersionFailed", "NoVersionField", "UnparsableVersion"}
    /\ call.candidates = <<>>
    /\ call.writes = {}
    /\ fs = call.fs0

C9_Witness ==
  /\ Done
  /\ call.readCurrent
  /\ call.engine = "mod"
  /\ call.fs0[PKG] = File(PkgNoVersion)
  /\ call.outcome = "NoVersionField"
  /\ \E f \in Files : Recognised("mod", f, fs[f].data, V(1, 2, 3)) /\ perm[f] = "rw"

\* C10: a rewritten file differs from its previous content only in the
\* version value of the matched declaration.
C10_RewritePreservesRest ==
  \A f \in call.writes : OnlyVersionsDiffer(call.fs0[f].data, fs[f].data)

\* C11: round trip: after the update step has written newVersion into a file
\* with a recognised declaration, extracting the version from the file's new
\* content returns exactly newVersion.
C11_RoundTrip ==
  (Done /\ call.op = "updateVersionInContent") =>
    \A f \in call.writes :
      extractVersion(fs[f].data, detectFileType(f, fs[f].data)) = call.newVersion

C11_Witness ==
  /\ Done
  /\ call.op = "updateVersionInContent"
  /\ call.writes = {TS1}
  /\ call.fs0[TS1] = File(TsTwo(V(1, 2, 3)))
  /\ call.newVersion = Pre(1, 0, 1)
  /\ fs[TS1] # call.fs0[TS1]

\* the release type an automatic mode stands for
ReleaseOf(mode) ==
  CASE mode \in {"major", "autoMajor"} -> "major"
    [] mode \in {"minor", "autoMinor"} -> "minor"
    [] OTHER -> "patch"

\* n is v with exactly the component of the release increased by one and the
\* lower-order components reset
ExactIncrement(v, n, release) ==
  CASE release = "major" -> n.maj = v.maj + 1 /\ n.min = 0 /\ n.pat = 0
    [] release = "minor" -> n.maj = v.maj /\ n.min = v.min + 1 /\ n.pat = 0
    [] OTHER -> n.maj = v.maj /\ n.min = v.min /\ n.pat = v.pat + 1

\* C12 (precondition): an increment of a valid version in mode patch, minor or
\* major has been computed.
C12_Incremented ==
  /\ Done
  /\ call.op \in {"calculateNewVersion", "autoIncrementVersion"}
  /\ call.mode # "auto"
  /\ semverValid(call.oldVersion)

\* C12 as stated: for every valid version the new version has exactly the
\* component of the mode increased by one, the lower-order components zero, the
\* higher-order ones unchanged, and compares greater.
C12_IncrementExact ==
  C12_Incremented =>
    /\ call.outcome = "ok"
    /\ ExactIncrement(call.oldVersion, call.newVersion, ReleaseOf(call.mode))
    /\ semverCompare(call.newVersion, call.oldVersion) = 1

\* the component of the release and the lower-order components of v
Component(v, release) ==
  CASE release = "major" -> v.maj [] release = "minor" -> v.min [] OTHER -> v.pat

LowerZero(v, release) ==
  CASE release = "major" -> v.min = 0 /\ v.pat = 0
    [] release = "minor" -> v.pat = 0
    [] OTHER -> TRUE

HigherSame(v, n, release) ==
  CASE release = "major" -> TRUE
    [] release = "minor" -> n.maj = v.maj
    [] OTHER -> n.maj = v.maj /\ n.min = v.min

\* C12 as amended: the new version is a release version greater than v, with the
\* higher-order components unchanged and the lower-order ones zero; for a
\* release version v the component of the mode is increased by one; for a
\* prerelease version v it is increased by one unless the lower-order components
\* of v are all zero, and then it is kept (the tag is dropped).
C12_IncrementSemver ==
  C12_Incremented =>
    LET v == call.oldVersion
        n == call.newVersion
        release == ReleaseOf(call.mode)
    IN  /\ call.outcome = "ok"
        /\ semverValid(n)
        /\ n.pre = 0
        /\ semverCompare(n, v) = 1
        /\ HigherSame(v, n, release)
        /\ LowerZero(n, release)
        /\ v.pre = 0 => Component(n, release) = Component(v, release) + 1
        /\ (v.pre = 1 /\ LowerZero(v, release))
             => Component(n, release) = Component(v, release)
        /\ (v.pre = 1 /\ ~LowerZero(v, release))
             => Component(n, release) = Component(v, release) + 1

C12_Witness ==
  /\ C12_Incremented
  /\ call.op = "calculateNewVersion"
  /\ call.mode = "minor"
  /\ call.oldVersion = Pre(1, 1, 0)
  /\ call.newVersion = V(1, 1, 0)

\* C13: when the new version differs from the current one, a candidate file
\* whose declaration already holds the new version is not written.
C13_AlreadyAtNewNotWritten ==
  call.newVersion # call.oldVersion =>
    \A f \in call.writes :
      ~HoldsVersion(call.engine, f, call.fs0[f].data, call.newVersion)

\* the positions of the version declarations of a source content and the
\* version a declaration holds
Declarations(c) == {i \in 1..Len(c) : typescriptAt(c, i).ok}

DeclaredAt(c, i) == Spelled(typescriptAt(c, i).g1 \o typescriptAt(c, i).g2)

\* C14: after a successful non-dry-run bump every version declaration of a
\* written source file holds the new version.
C14_AllDeclarationsRewritten ==
  (Done /\ call.outcome = "ok" /\ ~call.dryRun) =>
    \A f \in call.writes :
      endsWithTs(f) =>
        \A i \in Declarations(fs[f].data) : DeclaredAt(fs[f].data, i) = call.newVersion

\* C15: a candidate file that is absent is skipped: it is not written and no
\* failure entry is recorded for it.
C15_AbsentSkipped ==
  \A f \in Cand :
    ~call.fs0[f].exists =>
      /\ f \notin call.writes
      /\ \A e \in FailureEntries : e.file # f

\* C16: a bump writes only files in which it recognises a version declaration,
\* and the candidates of the analysis-augmented bump are files whose analysis
\* result is supported.
C16_UnsupportedNeverWritten ==
  /\ \A f \in call.writes :
       /\ f \in Cand
       /\ Recognised(call.engine, f, call.fs0[f].data, call.oldVersion)
  /\ (call.engine = "mod" /\ call.op \in {"bumpHandler", "handleNonInteractiveSession"}
      /\ fs = call.fs0)
       => \A f \in Cand : analyzeFile(f, call.oldVersion).supported

C16_Witness ==
  /\ Done
  /\ call.engine = "mod"
  /\ call.op = "bumpHandler"
  /\ call.fs0[TS1] = File(TsNone)
  /\ call.candidates = <<PKG, TS2>>
  /\ call.writes = {PKG, TS2}

\* C17: analyzeFiles returns normally with one result per listed file, and a
\* file whose read fails is reported unsupported with a reason naming the error.
C17_AnalyzeNeverThrows ==
  (Done /\ call.op = "analyzeFiles") =>
    /\ call.outcome = "ok"
    /\ Len(call.analysis) = Len(call.files)
    /\ \A i \in 1..Len(call.files) :
         /\ call.analysis[i].file = call.files[i]
         /\ ~readFileIn(call.fs0, call.files[i]).ok =>
              /\ ~call.analysis[i].supported
              /\ call.analysis[i].reason \in
                   (IF call.engine = "mod" THEN {"read error"}
                    ELSE IF call.fs0[call.files[i]].exists THEN {"Error analyzing file"}
                    ELSE {"File does not exist"})

C17_Witness ==
  /\ Done
  /\ call.op = "analyzeFiles"
  /\ call.engine = "mod"
  /\ call.files = AllFiles
  /\ perm[TS1] = "none"
  /\ fs[PKG] = File(PkgPlain(BadVer))
  /\ call.analysis[2].reason = "read error"

\* C18: for a readable file of a supported type with a declared version,
\* analyzeFiles reports versionMismatch = true and supported = true when the
\* declared version differs from the reference, and versionMismatch = false
\* when they are equal.
C18_MismatchAdvisory ==
  (Done /\ call.op = "analyzeFiles") =>
    \A i \in 1..Len(call.files) :
      LET f == call.files[i]
          r == readFileIn(call.fs0, f)
          fileType == detectFileType(f, r.data)
          declared == extractVersion(r.data, fileType)
      IN  (r.ok /\ fileType # "unknown" /\ declared # NoVer) =>
            /\ declared # call.oldVersion =>
                 call.analysis[i].versionMismatch /\ call.analysis[i].supported
            /\ declared = call.oldVersion => ~call.analysis[i].versionMismatch

\* C19: in an interactive session with at least one supported file, a version
\* mismatch among the analysed files does not make the session fail.
C19_MismatchIsWarning ==
  (/\ Done
   /\ call.op \in {"handleInteractiveSession", "run"}
   /\ \E i \in 1..Len(call.analysis) : call.analysis[i].supported
   /\ \E i \in 1..Len(call.analysis) : call.analysis[i].versionMismatch)
    => call.outcome = "ok"

\* the version declarations of a file all hold version v
AllDeclare(f, c, v) ==
  IF endsWithPackageJson(f)
  THEN \A i \in 1..Len(c) : packageJsonAt(c, i).ok => Spelled(packageJsonAt(c, i).g1) = v
  ELSE \A i \in Declarations(c) : DeclaredAt(c, i) = v

\* C20: once a re-invocation of the whole bump (a second or later call, after a
\* first call in which a write failed) completes without failure, every
\* candidate file holds the version of the manifest.
C20_ReinvocationHeals ==
  (/\ Done
   /\ nCalls <= RetryCalls - 2
   /\ call.outcome = "ok"
   /\ FailureEntries = {})
    => \A f \in Cand : AllDeclare(f, fs[f].data, jsonVersionField(fs[PKG].data))

\* the files a dry run reports as would-be-updated: the successful results of
\* bumpVersion (mod), the modifiedFiles list of bumpVersions (impl, old)
WouldUpdate ==
  IF call.engine = "mod" THEN {r.file : r \in {x \in call.updateResults : x.success}}
  ELSE call.modifiedFiles

\* the files the same call, not under dry-run, writes from the file state the
\* call started from
WriteSet ==
  {f \in Cand :
     LET r == readFileIn(call.fs0, f)
         c == [call EXCEPT !.dryRun = FALSE]
         t == [file |-> f, content |-> r.data]
     IN  /\ r.ok
         /\ IF call.engine = "mod" THEN modTaskFinish(c, t).write
            ELSE implTaskFinish(c, t).write}

\* C21: when a dry-run bump has finished and no candidate is unwritable, the
\* files it reports as would-be-updated are exactly the files the same bump
\* without dry-run writes from the same file state.
C21_DryRunReportsWriteSet ==
  (Done /\ call.dryRun /\ \A f \in Cand : perm[f] # "ro") => WouldUpdate = WriteSet

C21_Witness ==
  /\ Done
  /\ call.dryRun
  /\ call.engine = "mod"
  /\ call.candidates = AllFiles
  /\ call.fs0[TS1] = File(TsNone)
  /\ \A f \in Files : perm[f] = "rw"
  /\ WouldUpdate = {PKG, TS2}

\* the filters of the call that are not blank, in order
KeptFilters == SelectSeq(call.bumpFilter, LAMBDA x : ~x.blank)

\* C22: the pattern list handed to discovery: a filter with a wildcard is used
\* verbatim; otherwise one with a path separator or a dot becomes **/<filter>;
\* otherwise a bare name becomes **/<name>.*; an empty filter list gives the
\* manifest-only pattern; and the list is never empty.
C22_FilterTranslation ==
  call.discovered =>
    /\ call.bumpFilter # <<>> =>
         /\ Len(call.filePatterns) = Len(KeptFilters)
         /\ \A i \in 1..Len(KeptFilters) :
              LET x == KeptFilters[i]
              IN  call.filePatterns[i] =
                    IF x.star THEN Pattern("", x.text, "")
                    ELSE IF x.slash \/ x.dot THEN Pattern("**/", x.text, "")
                    ELSE Pattern("**/", x.text, ".*")
    /\ call.bumpFilter = <<>> => call.filePatterns = <<Pattern("**/", PKG, "")>>
    /\ call.filePatterns # <<>>

\* C23: getLatestVersion returns null when its list holds no valid version, and
\* otherwise an element of the list that is valid and not less, under
\* compareVersions, than any valid element.
C23_LatestIsGreatestValid ==
  (Done /\ call.op = "getLatestVersion") =>
    LET valid == {v \in {call.versions[i] : i \in 1..Len(call.versions)} : isValidSemver(v)}
    IN  IF valid = {} THEN call.newVersion = NoVer
        ELSE /\ call.newVersion \in valid
             /\ \A w \in valid : semverCompare(call.newVersion, w) >= 0

\* the files on which a task has started
Started == {call.started[i] : i \in 1..Len(call.started)}

\* C24: during a bump and during a file analysis at most CONCURRENCY_DEFAULT
\* per-file tasks are in progress; no file is given to two tasks, the tasks in
\* progress and the files still waiting are disjoint, and when the batch has
\* ended every candidate file has been given to a task.
C24_BoundedPool ==
  /\ Cardinality(call.inflight) <= CONCURRENCY_DEFAULT
  /\ \A i, j \in 1..Len(call.started) : call.started[i] = call.started[j] => i = j
  /\ {t.file : t \in call.inflight} \subseteq Started
  /\ Started \cap {call.todo[i] : i \in 1..Len(call.todo)} = {}
  /\ Started \cup {call.todo[i] : i \in 1..Len(call.todo)} = Cand
  /\ Done => Started = Cand

\* the pool is full while files are still waiting
C24_Witness ==
  /\ call.engine = "impl"
  /\ call.pc = "batch"
  /\ Cardinality(call.inflight) = CONCURRENCY_DEFAULT
  /\ Len(call.todo) = 2

\* C25: the ignore set handed to discovery contains every pattern of
\* IGNORE_PATTERNS; with a readable .gitignore it also contains the pattern of
\* every line that is neither blank nor a comment; and when reading .gitignore
\* fails, discovery still runs and the ignore set is exactly the fixed one.
C25_IgnoreSet ==
  call.discovered =>
    LET r == readFileIn(call.fs0, GITIGNORE)
        lines == call.fs0[GITIGNORE].data
    IN  /\ {Pattern("", ig, "") : ig \in IGNORE_PATTERNS} \subseteq call.ignored
        /\ r.ok =>
             \A i \in 1..Len(lines) :
               (lines[i].lead # "#" /\ lines[i] # GitLine("", "", ""))
                 => gitignorePatternOf(lines[i]) \in call.ignored
        /\ ~r.ok =>
             /\ call.ignored = baseIgnorePatterns
             /\ call.outcome \in {"none", "ok"}

\* .gitignore exists and cannot be read; the bump has run over the files
C25_Witness ==
  /\ Done
  /\ call.discovered
  /\ call.fs0[GITIGNORE] = File(GitignoreLines)
  /\ perm[GITIGNORE] = "none"
  /\ call.ignored = baseIgnorePatterns
  /\ TS2 \in call.writes

\* the positions of the "version": "<value>" pairs of a manifest, and the value
\* of the k-th pair in the order of the text
Pairs(c) == {i \in 1..Len(c) : packageJsonAt(c, i).ok}

PairValue(c, k) ==
  LET i == CHOOSE p \in Pairs(c) : Cardinality({j \in Pairs(c) : j < p}) = k - 1
  IN  Spelled(packageJsonAt(c, i).g1)

\* C26: when a bump has written a manifest that held more than one
\* "version": "<value>" pair, the first pair of the text holds the new version
\* and every later pair holds the value it held before.
C26_FirstPairOnly ==
  (PKG \in call.writes /\ Cardinality(Pairs(call.fs0[PKG].data)) > 1) =>
    /\ Cardinality(Pairs(fs[PKG].data)) = Cardinality(Pairs(call.fs0[PKG].data))
    /\ PairValue(fs[PKG].data, 1) = call.newVersion
    /\ \A k \in 2..Cardinality(Pairs(fs[PKG].data)) :
         PairValue(fs[PKG].data, k) = PairValue(call.fs0[PKG].data, k)

\* the version strings a content holds
VersionsIn(c) == {c[i].v : i \in {j \in 1..Len(c) : c[j].k = "ver"}}

\* C27: within one bump call the new version comes from the version the
\* manifest held when the call started, and the only version string a written
\* file has gained is that new version, whatever was written before it in the
\* batch.
C27_OneVersionPerCall ==
  call.writes # {} =>
    /\ call.mainFile = PKG => call.oldVersion = jsonVersionField(call.fs0[PKG].data)
    /\ call.mode \notin {"manual", "customVersion"} =>
         call.newVersion = semverInc(call.oldVersion, ReleaseOf(call.mode))
    /\ call.mode \in {"manual", "customVersion"} =>
         call.newVersion \in {call.customVersion, call.bumpSet}
    /\ \A f \in call.writes :
         VersionsIn(fs[f].data) \ VersionsIn(call.fs0[f].data) \subseteq {call.newVersion}

\* the manifest was written first, the source files after it
C27_Witness ==
  /\ Done
  /\ call.engine = "mod"
  /\ call.started = AllFiles
  /\ call.writes = Files
  /\ call.oldVersion = V(1, 2, 3)
  /\ \A f \in Files : VersionsIn(fs[f].data) = {V(1, 2, 4)}

\* C28: after a bump, not under dry-run, that has ended without failure and had
\* the manifest among its candidates, getCurrentVersion on the manifest returns
\* the new version.
C28_ReaderSeesNewVersion ==
  (/\ Done
   /\ ~call.dryRun
   /\ call.outcome = "ok"
   /\ FailureEntries = {}
   /\ PKG \in Cand)
    => getCurrentVersion = Ok(call.newVersion)

\* C29: analyzeFiles returns exactly one result per listed file, and in every
\* result versionMismatch implies supported, and supported implies a detected
\* version and a file type other than unknown.
C29_AnalysisWellFormed ==
  (Done /\ call.op = "analyzeFiles") =>
    /\ Len(call.analysis) = Len(call.files)
    /\ \A i \in 1..Len(call.files) :
         Cardinality({j \in 1..Len(call.analysis) : call.analysis[j].file = call.files[i]}) = 1
    /\ \A j \in 1..Len(call.analysis) :
         /\ call.analysis[j].versionMismatch => call.analysis[j].supported
         /\ call.analysis[j].supported =>
              /\ call.analysis[j].detectedVersion # NoVer
              /\ call.analysis[j].fileType # "unknown"

\* the configuration file on disk d holds a bumpDisable entry
HasEntry(d) ==
  /\ d[CFG].exists
  /\ \E i \in 1..Len(d[CFG].data) : updatePatternAt(d[CFG].data, i).ok

\* C30 (the absent file): without a configuration file setBumpDisabledValueTo
\* returns normally and changes nothing, and isBumpDisabled returns false.
C30_AbsentConfig ==
  (Done /\ ~call.fs0[CFG].exists) =>
    /\ call.op = "setBumpDisabledValueTo" =>
         call.outcome = "ok" /\ fs = call.fs0 /\ ~isBumpDisabled
    /\ call.op = "isBumpDisabled" => call.outcome = "ok" /\ ~call.disabled

====
